---- MODULE Spec2Model ----
(***************************************************************************)
(* Model of the bid record service (server/src/routes/bids.ts) and of the  *)
(* bulk import (server/src/routes/import.ts) of frontier-app.              *)
(*                                                                         *)
(* Text is a sequence of one-character strings, so that trimming,          *)
(* lower-casing, number parsing and key construction are computed the way  *)
(* the code computes them.  The database is one record, store; a request   *)
(* is handled in one step, which records the request (req), the response   *)
(* (resp) and the middleware / storage calls it made, in order (log).      *)
(***************************************************************************)
EXTENDS Integers, Sequences, FiniteSets, TLC

VARIABLES store, req, resp, log, inflight

vars == <<store, req, resp, log, inflight>>

(* ------------------------------ bounds -------------------------------- *)
\* bid ids handed out by the autoincrement column are capped
MaxBid == 2
\* rows of the attachment table are capped
MaxAttach == 1
\* rows of one import batch (wide import specification)
MaxRows == 3

(* ------------------------------- text --------------------------------- *)
\* JavaScript values that may be absent are tagged records: undefined, null,
\* a string (its characters), a number, an array (its items).
Undefined == [t |-> "undefined"]
Null == [t |-> "null"]
Str(s) == [t |-> "str", s |-> s]
NumJ(n) == [t |-> "num", val |-> n]
Arr(a) == [t |-> "arr", items |-> a]

UpperCase == <<"A","B","C","D","E","F","G","H","I","J","K","L","M",
               "N","O","P","Q","R","S","T","U","V","W","X","Y","Z">>
LowerCase == <<"a","b","c","d","e","f","g","h","i","j","k","l","m",
               "n","o","p","q","r","s","t","u","v","w","x","y","z">>
Digits == <<"0","1","2","3","4","5","6","7","8","9">>

IsSpace(c) == c = " "
IsDigit(c) == \E i \in 1..10 : Digits[i] = c
DigitVal(c) == (CHOOSE i \in 1..10 : Digits[i] = c) - 1

LowerChar(c) ==
  IF \E i \in 1..26 : UpperCase[i] = c
  THEN LowerCase[CHOOSE i \in 1..26 : UpperCase[i] = c]
  ELSE c

\* String.prototype.toLowerCase
ToLower(s) == [i \in 1..Len(s) |-> LowerChar(s[i])]

RECURSIVE TrimLeft(_)
TrimLeft(s) == IF s # <<>> /\ IsSpace(Head(s)) THEN TrimLeft(Tail(s)) ELSE s

RECURSIVE TrimRight(_)
TrimRight(s) ==
  IF s # <<>> /\ IsSpace(s[Len(s)]) THEN TrimRight(SubSeq(s, 1, Len(s) - 1)) ELSE s

\* String.prototype.trim
Trim(s) == TrimRight(TrimLeft(s))

\* x ?? d
Coalesce(x, d) == IF x = Undefined \/ x = Null THEN d ELSE x

RECURSIVE DecimalText(_)
DecimalText(n) ==
  IF n < 0 THEN <<"-">> \o DecimalText(0 - n)
  ELSE IF n < 10 THEN <<Digits[n + 1]>>
  ELSE DecimalText(n \div 10) \o <<Digits[(n % 10) + 1]>>

\* String(x): the characters of x
StringOf(x) ==
  CASE x = Undefined -> <<"u","n","d","e","f","i","n","e","d">>
    [] x = Null -> <<"n","u","l","l">>
    [] x.t = "str" -> x.s
    [] x.t = "num" -> DecimalText(x.val)

AllDigits(s) == \A i \in 1..Len(s) : IsDigit(s[i])

RECURSIVE DigitsValue(_)
DigitsValue(s) ==
  IF s = <<>> THEN 0
  ELSE 10 * DigitsValue(SubSeq(s, 1, Len(s) - 1)) + DigitVal(s[Len(s)])

\* a JavaScript number: NaN, or an integer value
NaN == [nan |-> TRUE, val |-> 0]
Num(n) == [nan |-> FALSE, val |-> n]

\* Number(text): surrounding white space is ignored, the empty text is 0, an
\* optional sign and decimal digits are the value, anything else is NaN
\* (fractions, exponents and radix prefixes are outside the alphabet used).
NumberOfText(s) ==
  LET t == Trim(s) IN
  IF t = <<>> THEN Num(0)
  ELSE IF Head(t) = "-" /\ Len(t) > 1 /\ AllDigits(Tail(t)) THEN Num(0 - DigitsValue(Tail(t)))
  ELSE IF Head(t) = "+" /\ Len(t) > 1 /\ AllDigits(Tail(t)) THEN Num(DigitsValue(Tail(t)))
  ELSE IF AllDigits(t) THEN Num(DigitsValue(t))
  ELSE NaN

RECURSIVE LeadingDigits(_)
LeadingDigits(s) ==
  IF s # <<>> /\ IsDigit(Head(s)) THEN <<Head(s)>> \o LeadingDigits(Tail(s)) ELSE <<>>

\* Number.parseInt(text, 10): the longest numeric prefix, NaN when there is none
ParseInt10(s) ==
  LET t == TrimLeft(s)
      neg == t # <<>> /\ Head(t) = "-"
      u == IF t # <<>> /\ (Head(t) = "-" \/ Head(t) = "+") THEN Tail(t) ELSE t
      d == LeadingDigits(u)
  IN IF d = <<>> THEN NaN
     ELSE Num(IF neg THEN 0 - DigitsValue(d) ELSE DigitsValue(d))

\* Number.isFinite / isFinite on the numbers above
IsFiniteNum(n) == ~n.nan

(* -------------------------- permission model --------------------------- *)
Roles == {"ADMIN", "MANAGER", "ESTIMATOR", "VIEWER"}
NoRole == "none"
Callers == Roles \cup {NoRole}

ROLE_PERMS ==
  [r \in Roles |->
     CASE r = "ADMIN" -> {"read", "create", "update", "delete"}
       [] r = "MANAGER" -> {"read", "create", "update"}
       [] r = "ESTIMATOR" -> {"read", "create", "update", "delete"}
       [] r = "VIEWER" -> {"read"}]

can(role, action) ==
  IF role = NoRole THEN FALSE
  ELSE IF role \in DOMAIN ROLE_PERMS THEN action \in ROLE_PERMS[role] ELSE FALSE

\* requireRole(...allowed) of middleware/permissions.js, as the
\* specification has it: the caller's role must be one of those listed
requireRole(role, allowed) == role \in allowed

\* the role lists at the three write routes
PostRoles == {"ADMIN", "MANAGER", "ESTIMATOR"}
PutRoles == {"ADMIN", "MANAGER", "ESTIMATOR"}
\* (a delete route that lists MANAGER too)
DeleteRolesWithManager == {"ADMIN", "MANAGER", "ESTIMATOR"}
DeleteRoles == {"ADMIN", "ESTIMATOR"}

\* canAccessBid of middleware/permissions.js, the update route's first
\* middleware.  The specification gives it no rule of its own and has every
\* authorization check run before any data access: it lets the request on
\* and makes no database call.
canAccessBid(role, rawId) == TRUE

(* ----------------------------- sanitizing ------------------------------ *)
Pending == <<"P","e","n","d","i","n","g">>
Won == <<"W","o","n">>
Lost == <<"L","o","s","t">>

VALID_SCOPE_STATUS == {Pending, Won, Lost}

\* Number(x) of a tagged value
NumberOf(x) ==
  CASE x = Undefined -> NaN
    [] x = Null -> Num(0)
    [] x.t = "num" -> Num(x.val)
    [] x.t = "str" -> NumberOfText(x.s)

\* Number(s.cost ?? 0) || 0
CostOf(raw) ==
  LET n == NumberOf(Coalesce(raw, NumJ(0)))
  IN IF n.nan \/ n.val = 0 THEN 0 ELSE n.val

SanitizeOne(s) ==
  [name |-> Trim(StringOf(Coalesce(s.name, Str(<<>>)))),
   cost |-> CostOf(s.cost),
   status |-> IF StringOf(s.status) \in VALID_SCOPE_STATUS
              THEN StringOf(s.status)
              ELSE Pending]

KeepNamed(s) == Len(s.name) > 0

\* a sanitizer without the filter on the name
sanitizeScopesKeepAll(raw) ==
  IF raw.t # "arr" THEN <<>>
  ELSE [i \in 1..Len(raw.items) |-> SanitizeOne(raw.items[i])]

sanitizeScopes(raw) ==
  IF raw.t # "arr" THEN <<>>
  ELSE SelectSeq([i \in 1..Len(raw.items) |-> SanitizeOne(raw.items[i])], KeepNamed)

(* ------------------------------- dates --------------------------------- *)
\* a Date at UTC midnight, or the invalid Date
InvalidDate == [t |-> "invalid"]
DateOf(y, m, d) == [t |-> "date", y |-> y, m |-> m, d |-> d]

IsLeap(y) == (y % 4 = 0 /\ y % 100 # 0) \/ y % 400 = 0

DaysInMonth(y, m) ==
  CASE m = 2 -> IF IsLeap(y) THEN 29 ELSE 28
    [] m \in {4, 6, 9, 11} -> 30
    [] OTHER -> 31

\* day overflow and underflow carried into the months, as MakeDay does
RECURSIVE CarryDays(_, _, _)
CarryDays(y, m, d) ==
  IF d < 1 THEN
    LET pm == IF m = 1 THEN 12 ELSE m - 1
        py == IF m = 1 THEN y - 1 ELSE y
    IN CarryDays(py, pm, d + DaysInMonth(py, pm))
  ELSE IF d > DaysInMonth(y, m) THEN
    CarryDays(IF m = 12 THEN y + 1 ELSE y, IF m = 12 THEN 1 ELSE m + 1, d - DaysInMonth(y, m))
  ELSE DateOf(y, m, d)

\* new Date(Date.UTC(year, monthIndex, day)): years 0..99 mean 1900..1999,
\* out-of-range months and days are carried, the result is never invalid
DateUTC(year, monthIndex, day) ==
  LET y0 == IF year >= 0 /\ year <= 99 THEN 1900 + year ELSE year
      y1 == y0 + (monthIndex \div 12)
      m1 == (monthIndex % 12) + 1
  IN CarryDays(y1, m1, day)

\* /^\d{4}-\d{2}-\d{2}/
IsoPrefixed(t) ==
  /\ Len(t) >= 10
  /\ \A i \in {1, 2, 3, 4, 6, 7, 9, 10} : IsDigit(t[i])
  /\ t[5] = "-" /\ t[8] = "-"

\* new Date(text) of a date-only ISO text: the month must be 1..12 and the
\* day 1..31; a day past the end of the month is carried into the next one.
\* Anything after the tenth character is outside the texts used here.
IsoDate(t) ==
  LET y == DigitsValue(SubSeq(t, 1, 4))
      m == DigitsValue(SubSeq(t, 6, 7))
      d == DigitsValue(SubSeq(t, 9, 10))
  IN IF Len(t) = 10 /\ m >= 1 /\ m <= 12 /\ d >= 1 /\ d <= 31
     THEN CarryDays(y, m, d)
     ELSE InvalidDate

\* new Date(text): ISO texts as above; the other texts used here hold no
\* date the engine's fallback parser recognises
NewDate(t) == IF IsoPrefixed(t) THEN IsoDate(t) ELSE InvalidDate

\* /^(\d{1,2})[\/-](\d{1,2})[\/-](\d{4})$/ : the three fields, or <<>>
IsSep(c) == c = "/" \/ c = "-"

DmyMatch(t) ==
  LET ok(a, b) ==
        /\ Len(t) = a + b + 6
        /\ AllDigits(SubSeq(t, 1, a))
        /\ IsSep(t[a + 1])
        /\ AllDigits(SubSeq(t, a + 2, a + 1 + b))
        /\ IsSep(t[a + b + 2])
        /\ AllDigits(SubSeq(t, a + b + 3, a + b + 6))
      hits == {ab \in {1, 2} \X {1, 2} : ok(ab[1], ab[2])}
  IN IF hits = {} THEN <<>>
     ELSE LET ab == CHOOSE x \in hits : TRUE
          IN <<DigitsValue(SubSeq(t, 1, ab[1])),
               DigitsValue(SubSeq(t, ab[1] + 2, ab[1] + 1 + ab[2])),
               DigitsValue(SubSeq(t, ab[1] + ab[2] + 3, ab[1] + ab[2] + 6))>>

\* parseDateLoose: a Date, or Null
parseDateLoose(s) ==
  IF s = Undefined \/ s = Null \/ s = Str(<<>>) THEN Null
  ELSE
    LET t == Trim(StringOf(s))
        m == DmyMatch(t)
    IN IF IsoPrefixed(t) THEN
         (IF IsoDate(t) = InvalidDate THEN Null ELSE IsoDate(t))
       ELSE IF m # <<>> THEN
         \* day first: day = m[1], month = m[2]
         DateUTC(m[3], m[2] - 1, m[1])
       ELSE IF NewDate(t) = InvalidDate THEN Null ELSE NewDate(t)

\* parseDateOrNull (bids.ts): v ? new Date(v) : null
parseDateOrNull(v) ==
  IF v = Undefined \/ v = Null \/ v = Str(<<>>) THEN Null ELSE NewDate(StringOf(v))

(* ---------------------------- aggregation ------------------------------ *)
\* utils/aggregate.js, as the specification has it: the sum of the costs, and
\* one precedence order over the statuses
RECURSIVE totalAmount(_)
totalAmount(ss) == IF ss = <<>> THEN 0 ELSE Head(ss).cost + totalAmount(Tail(ss))

\* an aggregate that is the status of the scope that comes first
aggregateScopeStatusOfFirst(ss) ==
  IF ss = <<>> THEN "Unknown"
  ELSE IF ss[1].status = Pending THEN "Pending"
  ELSE IF ss[1].status = Lost THEN "Lost"
  ELSE "Won"

aggregateScopeStatus(ss) ==
  LET has(x) == \E i \in 1..Len(ss) : ss[i].status = x
  IN IF ss = <<>> THEN "Unknown"
     ELSE IF has(Pending) THEN "Pending"
     ELSE IF has(Lost) THEN "Lost"
     ELSE "Won"

(* -------------------------------- store -------------------------------- *)
\* bids: id -> row; scopes, attachments, companies, contacts: table rows in
\* insertion order (a company's or contact's id is its position); notes and
\* bidTags: the bids that own a note / a tag association.
Active == <<"A","c","t","i","v","e">>
Complete == <<"C","o","m","p","l","e","t","e">>
Archived == <<"A","r","c","h","i","v","e","d">>
Hot == <<"H","o","t">>
Cold == <<"C","o","l","d">>

ScopesOf(st, b) == SelectSeq(st.scopes, LAMBDA r : r.bidId = b)
ScopeRow(b, s) == [bidId |-> b, name |-> s.name, cost |-> s.cost, status |-> s.status]
ScopeFields(r) == [name |-> r.name, cost |-> r.cost, status |-> r.status]
ScopeRows(b, ss) == [i \in 1..Len(ss) |-> ScopeRow(b, ss[i])]
FieldsOf(rows) == [i \in 1..Len(rows) |-> ScopeFields(rows[i])]
AttachmentsOf(st, b) == SelectSeq(st.attachments, LAMBDA a : a = b)

CompanyExists(st, c) == c.t = "num" /\ c.val \in 1..Len(st.companies)
ContactExists(st, c) == c = Null \/ (c.t = "num" /\ c.val \in 1..Len(st.contacts))

(* ------------------------------ responses ------------------------------ *)
NoReq == [op |-> "none"]
NoResp == [status |-> 0]
Forbidden == [status |-> 403, error |-> "Forbidden"]
InvalidId == [status |-> 400, error |-> "Invalid id"]
NotFound == [status |-> 404, error |-> "Not found"]
\* next(err): the error is handed to the application's error handler
ServerError == [status |-> 500, error |-> "error"]

Out(st, r, l) == [store |-> st, resp |-> r, log |-> l]

\* the calls that read or write the database
StorageCalls ==
  {"bid.findMany", "bid.findUnique", "bid.create", "bid.update", "bid.deleteMany",
   "scope.deleteMany", "note.deleteMany", "attachment.deleteMany", "bidTag.deleteMany",
   "attachment.create", "company.findFirst", "company.create", "contact.findFirst",
   "contact.create"}

(* ------------------------------ redaction ------------------------------ *)
\* a redaction that leaves the amount in
redactForViewerKeepAmount(role, rows) == rows

\* rows.map(row => ({ ...row, amount: null, scopes: undefined })) for a VIEWER;
\* a list row has no scopes field, and JSON leaves an undefined field out
redactForViewer(role, rows) ==
  IF role # "VIEWER" THEN rows
  ELSE [i \in 1..Len(rows) |-> [rows[i] EXCEPT !.amount = Null]]

(* ------------------------------ GET /bids ------------------------------ *)
RECURSIVE SetToSeq(_)
\* the ids of a set in increasing order
SetToSeq(S) ==
  IF S = {} THEN <<>>
  ELSE LET m == CHOOSE x \in S : \A y \in S : x <= y
       IN <<m>> \o SetToSeq(S \ {m})

CompanyName(st, b) == st.companies[st.bids[b].clientCompanyId]

\* a mapped row whose amount is taken over the scopes of every bid
ListRowAllScopes(st, b) ==
  [id |-> b,
   projectName |-> st.bids[b].projectName,
   clientName |-> CompanyName(st, b),
   amount |-> NumJ(totalAmount(st.scopes)),
   proposalDate |-> st.bids[b].proposalDate,
   dueDate |-> st.bids[b].dueDate,
   scopeStatus |-> aggregateScopeStatus(ScopesOf(st, b)),
   bidStatus |-> st.bids[b].bidStatus]

\* one mapped row of the list.  The rows are given in id order: the order of
\* the response (updatedAt, descending) is not modelled.
ListRow(st, b) ==
  [id |-> b,
   projectName |-> st.bids[b].projectName,
   clientName |-> CompanyName(st, b),
   amount |-> NumJ(totalAmount(ScopesOf(st, b))),
   proposalDate |-> st.bids[b].proposalDate,
   dueDate |-> st.bids[b].dueDate,
   scopeStatus |-> aggregateScopeStatus(ScopesOf(st, b)),
   bidStatus |-> st.bids[b].bidStatus]

\* the status filter of the query; search and createdFrom / createdTo are
\* left unset
ListResults(st, status) ==
  SetToSeq({b \in DOMAIN st.bids :
              status = Undefined \/ status = Str(<<>>) \/ st.bids[b].bidStatus = status})

\* requirePerm(action): the request goes on only when can(req, action)
requirePerm(role, action) == can(role, action)

ListOut(st, role, status) ==
  IF ~requirePerm(role, "read")
  THEN Out(st, Forbidden, <<"authRequired", "requirePerm">>)
  ELSE LET ids == ListResults(st, status)
           mapped == [i \in 1..Len(ids) |-> ListRow(st, ids[i])]
       IN Out(st, [status |-> 200, body |-> redactForViewer(role, mapped)],
              <<"authRequired", "requirePerm", "bid.findMany">>)

(* ---------------------------- GET /bids/:id ---------------------------- *)
\* findUnique with its includes
BidWithRelations(st, b) ==
  [id |-> b,
   projectName |-> st.bids[b].projectName,
   clientCompanyId |-> st.bids[b].clientCompanyId,
   contactId |-> st.bids[b].contactId,
   proposalDate |-> st.bids[b].proposalDate,
   dueDate |-> st.bids[b].dueDate,
   bidStatus |-> st.bids[b].bidStatus,
   clientCompany |-> CompanyName(st, b),
   scopes |-> ScopesOf(st, b),
   notes |-> IF b \in st.notes THEN 1 ELSE 0,
   tags |-> IF b \in st.bidTags THEN 1 ELSE 0,
   attachments |-> Len(AttachmentsOf(st, b))]

\* a spread that keeps the scopes
WithScopesKept(b) == b

\* { ...b, scopes: undefined }: the response carries no scopes field
WithoutScopes(b) == [f \in (DOMAIN b) \ {"scopes"} |-> b[f]]

\* a get-one that gives every reader the whole record
GetOutUnredacted(st, role, rawId) ==
  LET id == NumberOfText(rawId)
      l0 == <<"authRequired", "requirePerm">>
  IN IF ~requirePerm(role, "read") THEN Out(st, Forbidden, l0)
     ELSE IF ~IsFiniteNum(id) THEN Out(st, InvalidId, l0)
     ELSE IF id.val \notin DOMAIN st.bids
       THEN Out(st, NotFound, l0 \o <<"bid.findUnique">>)
     ELSE Out(st, [status |-> 200, body |-> BidWithRelations(st, id.val)],
              l0 \o <<"bid.findUnique">>)

GetOut(st, role, rawId) ==
  LET id == NumberOfText(rawId)
      l0 == <<"authRequired", "requirePerm">>
  IN IF ~requirePerm(role, "read") THEN Out(st, Forbidden, l0)
     ELSE IF ~IsFiniteNum(id) THEN Out(st, InvalidId, l0)
     ELSE IF id.val \notin DOMAIN st.bids
       THEN Out(st, NotFound, l0 \o <<"bid.findUnique">>)
     ELSE IF role = "VIEWER"
       THEN Out(st, [status |-> 200, body |-> WithoutScopes(BidWithRelations(st, id.val))],
                l0 \o <<"bid.findUnique">>)
     ELSE Out(st, [status |-> 200, body |-> BidWithRelations(st, id.val)],
              l0 \o <<"bid.findUnique">>)

(* ------------------------- prisma.$transaction ------------------------- *)
\* A run of the statements of a transaction: whether all of them succeeded,
\* the state they left behind, and the calls made.
Run(ok, st, calls) == [ok |-> ok, st |-> st, calls |-> calls]

\* statements run one by one, with nothing undone when one of them throws
TransactionNoRollback(before, run) == run.st

\* the transaction commits when every statement succeeded and is rolled
\* back otherwise
Transaction(before, run) == IF run.ok THEN run.st ELSE before

(* ------------------------------ POST /bids ----------------------------- *)
\* prisma.bid.create with its nested scope creates: one statement
BidCreateOk(st, data) ==
  /\ CompanyExists(st, data.clientCompanyId)
  /\ ContactExists(st, Coalesce(data.contactId, Null))

NewBidRow(projectName, companyId, contactId, proposalDate, dueDate, bidStatus) ==
  [projectName |-> projectName, clientCompanyId |-> companyId, contactId |-> contactId,
   proposalDate |-> proposalDate, dueDate |-> dueDate, bidStatus |-> bidStatus]

BidCreate(st, row, ss) ==
  [st EXCEPT !.bids = @ @@ (st.nextBidId :> row),
             !.scopes = @ \o ScopeRows(st.nextBidId, ss),
             !.nextBidId = @ + 1]

PostOut(st, role, data, fail) ==
  LET l0 == <<"authRequired", "requireRole">>
      ss == sanitizeScopes(data.scopes)
      row == NewBidRow(Trim(StringOf(Coalesce(data.projectName, Str(<<>>)))),
                       data.clientCompanyId.val,
                       Coalesce(data.contactId, Null),
                       parseDateOrNull(data.proposalDate),
                       parseDateOrNull(data.dueDate),
                       data.bidStatus)
  IN IF ~requireRole(role, PostRoles) THEN Out(st, Forbidden, l0)
     ELSE IF fail = "bid.create" \/ ~BidCreateOk(st, data)
       THEN Out(st, ServerError, l0 \o <<"bid.create">>)
     ELSE LET st2 == BidCreate(st, row, ss)
          IN Out(st2, [status |-> 201, body |-> BidWithRelations(st2, st.nextBidId)],
                 l0 \o <<"bid.create">>)

(* ---------------------------- PUT /bids/:id ---------------------------- *)
\* a deleteMany that deletes nothing
ScopeDeleteManyNone(st, id) == st

\* prisma.scope.deleteMany({ where: { bidId: id } })
ScopeDeleteMany(st, id) == [st EXCEPT !.scopes = SelectSeq(@, LAMBDA r : r.bidId # id)]

\* prisma.bid.update throws when no bid has the id, or a referenced company
\* or contact does not exist; an undefined field is left as it is
BidUpdateOk(st, id, data) ==
  /\ id \in DOMAIN st.bids
  /\ data.clientCompanyId = Undefined \/ CompanyExists(st, data.clientCompanyId)
  /\ ContactExists(st, IF data.contactId = Undefined \/ data.contactId = NumJ(0)
                       THEN Null ELSE data.contactId)

BidUpdate(st, id, data, ss) ==
  [st EXCEPT
     !.bids[id] =
        [@ EXCEPT
           !.projectName = Trim(StringOf(Coalesce(data.projectName, Str(<<>>)))),
           !.clientCompanyId =
              IF data.clientCompanyId = Undefined THEN @ ELSE data.clientCompanyId.val,
           !.contactId = IF data.contactId = Undefined \/ data.contactId = NumJ(0)
                         THEN Null ELSE data.contactId,
           !.proposalDate = parseDateOrNull(data.proposalDate),
           !.dueDate = parseDateOrNull(data.dueDate),
           !.bidStatus = IF data.bidStatus = Undefined THEN @ ELSE data.bidStatus],
     !.scopes = @ \o ScopeRows(id, ss)]

\* the two statements of the batch, in order
PutRun(st, id, data, ss, fail) ==
  LET s1 == ScopeDeleteMany(st, id)
  IN IF fail = "scope.deleteMany" THEN Run(FALSE, st, <<"scope.deleteMany">>)
     ELSE IF fail = "bid.update" \/ ~BidUpdateOk(s1, id, data)
       THEN Run(FALSE, s1, <<"scope.deleteMany", "bid.update">>)
     ELSE Run(TRUE, BidUpdate(s1, id, data, ss), <<"scope.deleteMany", "bid.update">>)

\* the handler proper, reached when both middlewares let the request on
PutHandler(st, rawId, data, fail, l0) ==
  LET id == NumberOfText(rawId)
      run == PutRun(st, id.val, data, sanitizeScopes(data.scopes), fail)
      st2 == Transaction(st, run)
  IN IF ~IsFiniteNum(id) THEN Out(st, InvalidId, l0)
     ELSE IF ~run.ok THEN Out(st2, ServerError, l0 \o run.calls)
     ELSE Out(st2, [status |-> 200, body |-> BidWithRelations(st2, id.val)], l0 \o run.calls)

\* a chain in which the bid is looked up before the role is checked
PutOutLookupFirst(st, role, rawId, data, fail) ==
  LET l0 == <<"authRequired", "canAccessBid", "bid.findUnique", "requireRole">>
  IN IF ~requireRole(role, PutRoles) THEN Out(st, Forbidden, l0)
     ELSE PutHandler(st, rawId, data, fail, l0)

\* router.put('/:id', canAccessBid, requireRole(...), handler)
PutOut(st, role, rawId, data, fail) ==
  LET l0 == <<"authRequired", "canAccessBid", "requireRole">>
  IN IF ~canAccessBid(role, rawId) THEN Out(st, Forbidden, <<"authRequired", "canAccessBid">>)
     ELSE IF ~requireRole(role, PutRoles) THEN Out(st, Forbidden, l0)
     ELSE PutHandler(st, rawId, data, fail, l0)

\* whether the handler gets as far as reading the request body
PutReadsBody(role, rawId) ==
  canAccessBid(role, rawId) /\ requireRole(role, PutRoles) /\ IsFiniteNum(NumberOfText(rawId))

(* --------------------------- DELETE /bids/:id -------------------------- *)
DeleteSteps ==
  <<"scope.deleteMany", "note.deleteMany", "attachment.deleteMany", "bidTag.deleteMany",
    "bid.deleteMany">>

\* a callback that deletes the bid row and leaves its notes behind
DeleteAfterKeepNotes(st, id, k) ==
  [st EXCEPT
     !.scopes = IF k >= 1 THEN SelectSeq(@, LAMBDA r : r.bidId # id) ELSE @,
     !.attachments = IF k >= 3 THEN SelectSeq(@, LAMBDA a : a # id) ELSE @,
     !.bidTags = IF k >= 4 THEN @ \ {id} ELSE @,
     !.bids = IF k >= 5 THEN [b \in (DOMAIN @) \ {id} |-> @[b]] ELSE @]

\* the state after the first k statements of the callback
DeleteAfter(st, id, k) ==
  [st EXCEPT
     !.scopes = IF k >= 1 THEN SelectSeq(@, LAMBDA r : r.bidId # id) ELSE @,
     !.notes = IF k >= 2 THEN @ \ {id} ELSE @,
     !.attachments = IF k >= 3 THEN SelectSeq(@, LAMBDA a : a # id) ELSE @,
     !.bidTags = IF k >= 4 THEN @ \ {id} ELSE @,
     !.bids = IF k >= 5 THEN [b \in (DOMAIN @) \ {id} |-> @[b]] ELSE @]

\* fail = 0: no statement fails; fail = k: the k-th statement throws
DeleteRun(st, id, fail) ==
  IF fail = 0 THEN Run(TRUE, DeleteAfter(st, id, 5), DeleteSteps)
  ELSE Run(FALSE, DeleteAfter(st, id, fail - 1), SubSeq(DeleteSteps, 1, fail))

\* del.count of tx.bid.deleteMany({ where: { id } })
DeleteCount(st, id) == IF id \in DOMAIN st.bids THEN 1 ELSE 0

\* a response that does not look at the count
DeleteResponseAlways204(count) == [status |-> 204]

\* if (result === 0) 404, else 204
DeleteResponse(count) == IF count = 0 THEN NotFound ELSE [status |-> 204]

DeleteOut(st, role, rawId, fail) ==
  LET id == ParseInt10(rawId)
      l0 == <<"authRequired", "requireRole">>
      run == DeleteRun(st, id.val, fail)
  IN IF ~requireRole(role, DeleteRoles) THEN Out(st, Forbidden, l0)
     ELSE IF ~IsFiniteNum(id) THEN Out(st, InvalidId, l0)
     ELSE IF ~run.ok THEN Out(Transaction(st, run), ServerError, l0 \o run.calls)
     ELSE Out(Transaction(st, run), DeleteResponse(DeleteCount(st, id.val)), l0 \o run.calls)

DeleteReadsStore(role, rawId) ==
  requireRole(role, DeleteRoles) /\ IsFiniteNum(ParseInt10(rawId))

(* --------------------- POST /import/bids/:id/attachments --------------- *)
\* prisma.attachment.create({ data: { bidId: id, ... } }): the bid must exist.
\* The route has no try / catch: a failed create reaches the error handler.
AttachOut(st, rawId, hasFile) ==
  LET id == NumberOfText(rawId)
  IN IF ~hasFile THEN Out(st, [status |-> 400, error |-> "No file"], <<>>)
     ELSE IF ~IsFiniteNum(id) \/ id.val \notin DOMAIN st.bids
       THEN Out(st, ServerError, <<"attachment.create">>)
     ELSE Out([st EXCEPT !.attachments = Append(@, id.val)],
              [status |-> 200, body |-> [bidId |-> id.val]], <<"attachment.create">>)

(* ------------------------------- inputs -------------------------------- *)
\* the :id parameter as sent: two ids the autoincrement hands out, one it
\* never does, and a text with a numeric prefix only
RawIds == {<<"1">>, <<"2">>, <<"9">>, <<"2", "a">>}

\* incoming scopes: a name to trim with a thousands-separated cost and a
\* lower-case status, a blank name, and a plain one
RoofIn == [name |-> Str(<<" ", "R">>), cost |-> Str(<<"1", ",", "2">>), status |-> Str(<<"w", "o", "n">>)]
BlankIn == [name |-> Str(<<" ">>), cost |-> NumJ(5), status |-> Str(Won)]
DeckIn == [name |-> Str(<<"D">>), cost |-> NumJ(7), status |-> Str(Lost)]

ScopePayloads == {Undefined, Arr(<<DeckIn>>), Arr(<<RoofIn, BlankIn, RoofIn>>)}

Body(projectName, companyId, bidStatus, scopesIn) ==
  [projectName |-> projectName, clientCompanyId |-> companyId, contactId |-> Undefined,
   proposalDate |-> Undefined, dueDate |-> Undefined, bidStatus |-> bidStatus,
   scopes |-> scopesIn]

\* a body whose bidStatus is none of the five.  The handlers hand the value
\* to prisma as it is; whether prisma stores it or throws depends on the type
\* of the column, which the schema (not part of these sources) fixes: the
\* request's fail field selects the outcome ("none": stored, "bid.create" or
\* "bid.update": thrown).
OddStatus == <<"x">>
OddStatusBody == Body(Str(<<"P">>), NumJ(1), Str(OddStatus), Undefined)

\* bodies without a required field: a projectName that is blank, and no
\* clientCompanyId
BlankNameBody == Body(Str(<<" ">>), NumJ(1), Str(Active), Undefined)
NoCompanyBody == Body(Str(<<"P">>), Undefined, Str(Active), Undefined)

\* request bodies: every scope payload, a second project with another
\* status, one that names a company that does not exist, one with a
\* status that is none of the five, and the two without a required field
Bodies ==
  {Body(Str(<<"P">>), NumJ(1), Str(Active), sc) : sc \in ScopePayloads}
    \cup {Body(Str(<<" ", "Q">>), NumJ(1), Str(Hot), Arr(<<DeckIn>>)),
          Body(Str(<<"P">>), NumJ(9), Str(Active), Arr(<<DeckIn>>)),
          OddStatusBody, BlankNameBody, NoCompanyBody}

StatusQueries == {Undefined, Str(Hot)}
PostFails == {"none", "bid.create"}
PutFails == {"none", "scope.deleteMany", "bid.update"}
DeleteFails == 0..5

\* the bodies and storage failures tried on an update: every body, every
\* failure with the three-scope body and a failed bid.update with the odd
\* status for an ADMIN; one body for the others
PutInputs(role) ==
  IF role = "ADMIN"
  THEN (Bodies \X {"none"})
         \cup ({Body(Str(<<"P">>), NumJ(1), Str(Active), Arr(<<RoofIn, BlankIn, RoofIn>>))}
                 \X PutFails)
         \cup {<<OddStatusBody, "bid.update">>}
  ELSE {<<Body(Str(<<"P">>), NumJ(1), Str(Active), Arr(<<DeckIn>>)), "none">>}

\* the storage failures tried on a delete: every one for an ADMIN
DeleteInputs(role) == IF role = "ADMIN" THEN DeleteFails ELSE {0}

(* ---------------------- import: normalization helpers ------------------ *)
UpperChar(c) ==
  IF \E i \in 1..26 : LowerCase[i] = c
  THEN UpperCase[CHOOSE i \in 1..26 : LowerCase[i] = c]
  ELSE c

\* cleanStatus: Pending, Won or Lost whatever the case of the letters, or
\* undefined
cleanStatus(s) ==
  LET v == Trim(StringOf(Coalesce(s, Str(<<>>))))
      norm == ToLower(v)
  IN IF v = <<>> THEN Undefined
     ELSE IF norm \in {ToLower(Pending), ToLower(Won), ToLower(Lost)}
       THEN Str(<<UpperChar(norm[1])>> \o Tail(norm))
     ELSE Undefined

\* the keys of the synonym table
BidStatusMap(v) ==
  CASE v = <<"a","c","t","i","v","e">> -> Str(Active)
    [] v = <<"c","o","m","p","l","e","t","e">> -> Str(Complete)
    [] v = <<"c","o","m","p","l","e","t","e","d">> -> Str(Complete)
    [] v = <<"a","r","c","h","i","v","e">> -> Str(Archived)
    [] v = <<"a","r","c","h","i","v","e","d">> -> Str(Archived)
    [] v = <<"h","o","t">> -> Str(Hot)
    [] v = <<"c","o","l","d">> -> Str(Cold)
    \* the table is an object literal: these two keys are found on its prototype
    [] v = <<"c","o","n","s","t","r","u","c","t","o","r">> -> [t |-> "object", of |-> "constructor"]
    [] v = <<"_","_","p","r","o","t","o","_","_">> -> [t |-> "object", of |-> "__proto__"]
    [] OTHER -> Undefined

\* cleanBidStatus: map[v] ?? 'Active'
cleanBidStatus(s) ==
  Coalesce(BidStatusMap(ToLower(Trim(StringOf(Coalesce(s, Str(<<>>)))))), Str(Active))

\* String.prototype.replace(/[, ]+/g, '')
StripSeparators(s) == SelectSeq(s, LAMBDA c : c # "," /\ c # " ")

\* toNumberOrZero
toNumberOrZero(x) ==
  LET n == NumberOfText(StripSeparators(StringOf(Coalesce(x, Str(<<>>)))))
  IN IF IsFiniteNum(n) THEN n.val ELSE 0

\* text || null
OrNull(s) == IF s = <<>> THEN Null ELSE Str(s)

(* --------------------------- import: grouping -------------------------- *)
RowProject(r) == Trim(StringOf(Coalesce(r.projectName, Str(<<>>))))
RowCompany(r) == Trim(StringOf(Coalesce(r.clientCompany, Str(<<>>))))

\* `${projectName}||${clientCompany}`
GroupKey(projectName, clientCompany) == projectName \o <<"|", "|">> \o clientCompany

\* the position of a key among the groups, 0 when it is not there
KeyIndex(grouped, key) ==
  IF \E i \in 1..Len(grouped) : grouped[i].key = key
  THEN CHOOSE i \in 1..Len(grouped) : grouped[i].key = key
  ELSE 0

NewGroup(r, key) ==
  [key |-> key,
   projectName |-> RowProject(r),
   clientCompany |-> RowCompany(r),
   contactName |-> OrNull(Trim(StringOf(Coalesce(r.contactName, Str(<<>>))))),
   proposalDate |-> Trim(StringOf(Coalesce(r.proposalDate, Str(<<>>)))),
   dueDate |-> Trim(StringOf(Coalesce(r.dueDate, Str(<<>>)))),
   bidStatus |-> cleanBidStatus(r.bidStatus),
   scopes |-> <<>>]

\* an upgrade that lets every later row overwrite the status
ElevateAlways(g, r) == [g EXCEPT !.bidStatus = cleanBidStatus(r.bidStatus)]

\* a later row upgrades the status of its group from Active
Elevate(g, r) ==
  LET incomingStatus == cleanBidStatus(r.bidStatus)
  IN IF g.bidStatus = Str(Active) /\ incomingStatus # Str(Active)
     THEN [g EXCEPT !.bidStatus = incomingStatus]
     ELSE g

ScopeDraft(r) ==
  [name |-> Trim(StringOf(Coalesce(r.scopeName, Str(<<>>)))),
   cost |-> toNumberOrZero(r.scopeCost),
   status |-> cleanStatus(r.scopeStatus)]

\* a turn that opens a new group for every row
GroupRowNewEachTime(grouped, r) ==
  LET key == GroupKey(RowProject(r), RowCompany(r))
  IN IF RowProject(r) = <<>> \/ RowCompany(r) = <<>> THEN grouped
     ELSE Append(grouped, [NewGroup(r, key) EXCEPT !.scopes = <<ScopeDraft(r)>>])

\* a turn that skips a row only when both of its names are empty
GroupRowSkipWhenBothEmpty(grouped, r) ==
  LET key == GroupKey(RowProject(r), RowCompany(r))
      i == KeyIndex(grouped, key)
      g1 == IF i = 0 THEN Append(grouped, NewGroup(r, key))
            ELSE [grouped EXCEPT ![i] = Elevate(@, r)]
      j == IF i = 0 THEN Len(g1) ELSE i
  IN IF RowProject(r) = <<>> /\ RowCompany(r) = <<>> THEN grouped
     ELSE [g1 EXCEPT ![j].scopes = Append(@, ScopeDraft(r))]

\* one turn of the loop over the rows; grouped keeps the groups in the order
\* their keys were first seen
GroupRow(grouped, r) ==
  LET key == GroupKey(RowProject(r), RowCompany(r))
      i == KeyIndex(grouped, key)
      g1 == IF i = 0 THEN Append(grouped, NewGroup(r, key))
            ELSE [grouped EXCEPT ![i] = Elevate(@, r)]
      j == IF i = 0 THEN Len(g1) ELSE i
  IN IF RowProject(r) = <<>> \/ RowCompany(r) = <<>> THEN grouped
     ELSE [g1 EXCEPT ![j].scopes = Append(@, ScopeDraft(r))]

RECURSIVE GroupRows(_, _)
GroupRows(grouped, rows) ==
  IF rows = <<>> THEN grouped ELSE GroupRows(GroupRow(grouped, Head(rows)), Tail(rows))

(* ------------------------ import: per-group commit --------------------- *)
\* prisma.company.findFirst({ where: { name } }): the id, 0 when there is none
CompanyFindFirst(st, name) ==
  IF \E i \in 1..Len(st.companies) : st.companies[i] = name
  THEN CHOOSE i \in 1..Len(st.companies) :
         st.companies[i] = name /\ \A k \in 1..(i - 1) : st.companies[k] # name
  ELSE 0

ContactFindFirst(st, name, companyId) ==
  LET hit(i) == st.contacts[i].name = name /\ st.contacts[i].companyId = companyId
  IN IF \E i \in 1..Len(st.contacts) : hit(i)
     THEN CHOOSE i \in 1..Len(st.contacts) : hit(i) /\ \A k \in 1..(i - 1) : ~hit(k)
     ELSE 0

\* scopeCreates: the drafts with a name, cost and status cleaned once more
ScopeCreate(d) ==
  [name |-> d.name,
   cost |-> toNumberOrZero(NumJ(d.cost)),
   status |-> StringOf(Coalesce(cleanStatus(d.status), Str(Pending)))]

scopeCreates(g) ==
  LET kept == SelectSeq(g.scopes, LAMBDA d : d.name # <<>>)
  IN [i \in 1..Len(kept) |-> ScopeCreate(kept[i])]

InvalidDates == "Invalid date(s)"
StorageFailure == "storage failure"

\* The body of the try block for one group, in three stages.  fail names the
\* storage call of this group that throws, "none" when none does.  The
\* result: whether the group committed, the database afterwards (nothing is
\* undone when a later call throws), the error message and the calls made.
GroupResult(ok, st, message, calls) ==
  [ok |-> ok, st |-> st, message |-> message, calls |-> calls]

\* prisma.bid.create with the scopes of the group
CommitBid(st, g, companyId, contactId, fail, calls) ==
  IF fail = "bid.create" \/ g.bidStatus.t # "str"
  THEN GroupResult(FALSE, st, StorageFailure, calls \o <<"bid.create">>)
  ELSE GroupResult(TRUE,
                   BidCreate(st,
                             NewBidRow(g.projectName, companyId, contactId,
                                       parseDateLoose(Str(g.proposalDate)),
                                       parseDateLoose(Str(g.dueDate)), g.bidStatus),
                             scopeCreates(g)),
                   "", calls \o <<"bid.create">>)

\* the contact of the group: found, created, or none
CommitContact(st, g, companyId, fail, calls) ==
  LET cfound == ContactFindFirst(st, g.contactName.s, companyId)
  IN IF g.contactName = Null THEN CommitBid(st, g, companyId, Null, fail, calls)
     ELSE IF cfound # 0
       THEN CommitBid(st, g, companyId, NumJ(cfound), fail, calls \o <<"contact.findFirst">>)
     ELSE IF fail = "contact.create"
       THEN GroupResult(FALSE, st, StorageFailure,
                        calls \o <<"contact.findFirst", "contact.create">>)
     ELSE CommitBid([st EXCEPT !.contacts = Append(@, [name |-> g.contactName.s,
                                                       companyId |-> companyId])],
                    g, companyId, NumJ(Len(st.contacts) + 1), fail,
                    calls \o <<"contact.findFirst", "contact.create">>)

\* a try block that looks the company up, and creates it, before it looks at
\* the dates
CommitGroupDatesLate(st, g, fail) ==
  LET found == CompanyFindFirst(st, g.clientCompany)
      st1 == IF found # 0 THEN st ELSE [st EXCEPT !.companies = Append(@, g.clientCompany)]
  IN IF parseDateLoose(Str(g.proposalDate)) = Null \/ parseDateLoose(Str(g.dueDate)) = Null
       THEN GroupResult(FALSE, st1, InvalidDates, <<"company.findFirst">>)
     ELSE CommitContact(st1, g, IF found # 0 THEN found ELSE Len(st1.companies), fail,
                        <<"company.findFirst">>)

CommitGroup(st, g, fail) ==
  LET found == CompanyFindFirst(st, g.clientCompany)
  IN IF parseDateLoose(Str(g.proposalDate)) = Null \/ parseDateLoose(Str(g.dueDate)) = Null
       THEN GroupResult(FALSE, st, InvalidDates, <<>>)
     ELSE IF found # 0 THEN CommitContact(st, g, found, fail, <<"company.findFirst">>)
     ELSE IF fail = "company.create"
       THEN GroupResult(FALSE, st, StorageFailure, <<"company.findFirst", "company.create">>)
     ELSE CommitContact([st EXCEPT !.companies = Append(@, g.clientCompany)], g,
                        Len(st.companies) + 1, fail,
                        <<"company.findFirst", "company.create">>)

\* one turn of the loop over Object.keys(grouped): results holds the ids of
\* the bids created
AfterGroup(acc, g, r) ==
  IF r.ok
  THEN [acc EXCEPT !.st = r.st, !.results = Append(@, acc.st.nextBidId),
                   !.calls = @ \o r.calls]
  ELSE [acc EXCEPT !.st = r.st,
                   !.errors = Append(@, [key |-> g.key, message |-> r.message]),
                   !.calls = @ \o r.calls]

\* a loop that gives the batch up at the first group that fails
RECURSIVE CommitGroupsStopAtError(_, _, _, _, _)
CommitGroupsStopAtError(acc, groups, k, failAt, fail) ==
  IF k > Len(groups) \/ acc.errors # <<>> THEN acc
  ELSE CommitGroupsStopAtError(AfterGroup(acc, groups[k],
                                          CommitGroup(acc.st, groups[k],
                                                      IF failAt = k THEN fail ELSE "none")),
                               groups, k + 1, failAt, fail)

\* failAt: the group whose storage call `fail` throws
RECURSIVE CommitGroups(_, _, _, _, _)
CommitGroups(acc, groups, k, failAt, fail) ==
  IF k > Len(groups) THEN acc
  ELSE CommitGroups(AfterGroup(acc, groups[k],
                               CommitGroup(acc.st, groups[k],
                                           IF failAt = k THEN fail ELSE "none")),
                    groups, k + 1, failAt, fail)

ImportRun(st, rows, failAt, fail) ==
  CommitGroups([st |-> st, results |-> <<>>, errors |-> <<>>, calls |-> <<>>],
               GroupRows(<<>>, rows), 1, failAt, fail)

\* POST /import/bids
ImportOut(st, hasFile, rows, failAt, fail) ==
  IF ~hasFile THEN Out(st, [status |-> 400, error |-> "No file"], <<>>)
  ELSE LET run == ImportRun(st, rows, failAt, fail)
       IN Out(run.st,
              [status |-> 200, imported |-> Len(run.results), errors |-> run.errors],
              run.calls)

(* ---------------------------- import: inputs --------------------------- *)
Row(projectName, clientCompany, bidStatus, scopeName, scopeCost, scopeStatus, proposalDate, dueDate, contactName) ==
  [projectName |-> projectName, clientCompany |-> clientCompany, contactName |-> contactName,
   proposalDate |-> proposalDate, dueDate |-> dueDate, bidStatus |-> bidStatus,
   scopeName |-> scopeName, scopeCost |-> scopeCost, scopeStatus |-> scopeStatus]

IsoText == Str(<<"2","0","2","4","-","0","3","-","0","5">>)
DmyText == Str(<<"5","/","3","/","2","0","2","4">>)
BadDateText == Str(<<"x">>)

\* decoded rows: three of project P of company A (the second one with
\* spaces to trim, another status and no usable date, the third one with a
\* blank scope name), one of project Q of company B with a contact, and one
\* without a project name
RowA1 == Row(Str(<<"P">>), Str(<<"A">>), Str(<<"a","c","t","i","v","e">>),
             Str(<<" ", "R">>), Str(<<"1", ",", "2">>), Str(<<"w", "o", "n">>),
             IsoText, DmyText, Undefined)
RowA2 == Row(Str(<<" ", "P">>), Str(<<"A", " ">>), Str(<<"H","O","T"," ">>),
             Str(<<"D">>), Str(<<"7">>), Str(Lost),
             BadDateText, BadDateText, Undefined)
RowA3 == Row(Str(<<"P">>), Str(<<"A">>), Str(<<"c","o","l","d">>),
             Str(<<" ">>), Str(<<"3">>), Undefined,
             DmyText, IsoText, Undefined)
RowB1 == Row(Str(<<"Q">>), Str(<<"B">>), Undefined,
             Str(<<"D">>), Str(<<"-", "5">>), Undefined,
             IsoText, IsoText, Str(<<"c">>))
RowNoProject == Row(Str(<<" ">>), Str(<<"A">>), Str(<<"h","o","t">>),
                    Str(<<"Z">>), Str(<<"1">>), Str(Won),
                    IsoText, IsoText, Undefined)

RowNoCompany == Row(Str(<<"P">>), Str(<<" ", " ">>), Str(<<"h","o","t">>),
                    Str(<<"Z">>), Str(<<"1">>), Str(Won),
                    IsoText, IsoText, Undefined)

\* two rows of different projects and companies whose keys are the same text
RowBar1 == Row(Str(<<"P", "|">>), Str(<<"A">>), Undefined, Str(<<"R">>), Str(<<"3">>), Str(Won), IsoText, IsoText, Undefined)
RowBar2 == Row(Str(<<"P">>), Str(<<"|", "A">>), Undefined, Str(<<"D">>), Str(<<"7">>), Str(Lost), IsoText, IsoText, Undefined)

RowSamples == {RowA1, RowA2, RowA3, RowB1, RowNoProject}

RECURSIVE SeqsUpTo(_, _)
\* the sequences over S of length 0..n
SeqsUpTo(S, n) ==
  IF n = 0 THEN {<<>>}
  ELSE LET shorter == SeqsUpTo(S, n - 1)
       IN shorter \cup {Append(q, x) : q \in {p \in shorter : Len(p) = n - 1}, x \in S}

\* every short batch of the samples, and RowNoCompany before and after the
\* shorter batches of two of them
WideBatches ==
  SeqsUpTo(RowSamples, MaxRows)
    \cup {<<RowNoCompany>> \o q : q \in SeqsUpTo({RowA1, RowB1}, MaxRows - 1)}
    \cup {q \o <<RowNoCompany>> : q \in SeqsUpTo({RowA1, RowB1}, MaxRows - 1)}

\* the batches of the two rows whose keys are the same text
CollidingBatches == SeqsUpTo({RowBar1, RowBar2}, 2) \ {<<>>}
SmallBatches == {<<RowA1, RowA2>>, <<RowA2, RowA1>>, <<RowNoProject>>}

ImportFails == {"company.create", "contact.create", "bid.create"}

(* ----------------------------- the machine ----------------------------- *)
\* a database that holds one company and one bid of it, with or without a
\* note and a tag association
SeedStore(ns, ts) ==
  [bids |-> (1 :> NewBidRow(<<"P">>, 1, Null, Null, Null, Str(Active))),
   scopes |-> <<>>,
   notes |-> ns,
   attachments |-> <<>>,
   bidTags |-> ts,
   companies |-> <<<<"A">>>>,
   contacts |-> <<>>,
   nextBidId |-> 2]

\* the database before anything was created
EmptyStore ==
  [bids |-> <<>>, scopes |-> <<>>, notes |-> {}, attachments |-> <<>>, bidTags |-> {},
   companies |-> <<>>, contacts |-> <<>>, nextBidId |-> 1]

\* no request is being served alongside another
NoInflight == [iso |-> "none"]

Init ==
  /\ \E owners \in {{}, {1}} : store = SeedStore(owners, owners)
  /\ req = NoReq
  /\ resp = NoResp
  /\ log = <<>>
  /\ inflight = NoInflight

\* a request is taken up when the previous one has been answered
Idle == req = NoReq

Handle(r, out) ==
  /\ req' = r
  /\ resp' = out.resp
  /\ log' = out.log
  /\ store' = out.store
  /\ UNCHANGED inflight

ListBids ==
  /\ Idle
  /\ \E role \in Callers, status \in StatusQueries :
    Handle([op |-> "list", role |-> role, status |-> status], ListOut(store, role, status))

GetBid ==
  /\ Idle
  /\ \E role \in Callers, rawId \in RawIds :
    Handle([op |-> "get", role |-> role, id |-> rawId], GetOut(store, role, rawId))

PostBid ==
  /\ Idle
  /\ store.nextBidId <= MaxBid
  /\ \E role \in Callers :
       IF ~requireRole(role, PostRoles)
       THEN Handle([op |-> "post", role |-> role, body |-> Undefined, fail |-> "none"],
                   PostOut(store, role, Undefined, "none"))
       ELSE \E data \in Bodies, fail \in PostFails :
              Handle([op |-> "post", role |-> role, body |-> data, fail |-> fail],
                     PostOut(store, role, data, fail))

PutBid ==
  /\ Idle
  /\ \E role \in Callers, rawId \in RawIds :
    IF ~PutReadsBody(role, rawId)
    THEN Handle([op |-> "put", role |-> role, id |-> rawId, body |-> Undefined, fail |-> "none"],
                PutOut(store, role, rawId, Undefined, "none"))
    ELSE \E in \in PutInputs(role) :
           Handle([op |-> "put", role |-> role, id |-> rawId, body |-> in[1], fail |-> in[2]],
                  PutOut(store, role, rawId, in[1], in[2]))

DeleteBid ==
  /\ Idle
  /\ \E role \in Callers, rawId \in RawIds :
    IF ~DeleteReadsStore(role, rawId)
    THEN Handle([op |-> "delete", role |-> role, id |-> rawId, fail |-> 0],
                DeleteOut(store, role, rawId, 0))
    ELSE \E fail \in DeleteInputs(role) :
           Handle([op |-> "delete", role |-> role, id |-> rawId, fail |-> fail],
                  DeleteOut(store, role, rawId, fail))

UploadAttachment ==
  /\ Idle
  /\ Len(store.attachments) < MaxAttach
  /\ \E rawId \in RawIds, hasFile \in BOOLEAN :
       Handle([op |-> "attach", id |-> rawId, hasFile |-> hasFile],
              AttachOut(store, rawId, hasFile))

\* an import is taken up when the ids it may use are within the cap
ImportWith(roles, batches) ==
  /\ Idle
  /\ \E role \in roles, rows \in batches :
    LET n == Len(GroupRows(<<>>, rows))
    IN /\ store.nextBidId + n - 1 <= MaxBid
       /\ \E failAt \in 0..n, fail \in ImportFails \cup {"none"} :
            /\ (failAt = 0) = (fail = "none")
            /\ Handle([op |-> "import", role |-> role, hasFile |-> TRUE, rows |-> rows,
                        failAt |-> failAt, fail |-> fail],
                       ImportOut(store, TRUE, rows, failAt, fail))

ImportNoFile ==
  /\ Idle
  /\ \E role \in Callers :
    Handle([op |-> "import", role |-> role, hasFile |-> FALSE, rows |-> <<>>,
            failAt |-> 0, fail |-> "none"],
           ImportOut(store, FALSE, <<>>, 0, "none"))

ImportBids == ImportWith({NoRole, "VIEWER", "ADMIN"}, SmallBatches)

\* a wide batch is imported into a database that holds no bid yet
ImportBatch ==
  /\ DOMAIN store.bids = {}
  /\ ImportWith({"ADMIN"}, WideBatches)

\* a batch of rows whose keys are the same text is imported into the empty
\* database, without storage failures
ImportColliding ==
  /\ Idle
  /\ store = EmptyStore
  /\ \E rows \in CollidingBatches :
       Handle([op |-> "import", role |-> "ADMIN", hasFile |-> TRUE, rows |-> rows,
               failAt |-> 0, fail |-> "none"],
              ImportOut(store, TRUE, rows, 0, "none"))

\* the response has been sent
Respond ==
  /\ req # NoReq
  /\ req' = NoReq
  /\ resp' = NoResp
  /\ log' = <<>>
  /\ UNCHANGED <<store, inflight>>

Next ==
  \/ ListBids
  \/ GetBid
  \/ PostBid
  \/ PutBid
  \/ DeleteBid
  \/ UploadAttachment
  \/ ImportBids
  \/ ImportNoFile
  \/ Respond

Spec == Init /\ [][Next]_vars

\* the import alone: every batch of up to MaxRows sample rows, imported into
\* the empty database and into what the failed imports before it left there
InitImport ==
  /\ store = EmptyStore
  /\ req = NoReq
  /\ resp = NoResp
  /\ log = <<>>
  /\ inflight = NoInflight

NextImport ==
  \/ ImportBatch
  \/ ImportColliding
  \/ Respond

SpecImport == InitImport /\ [][NextImport]_vars

(* --------------------- the import's helpers alone ---------------------- *)
\* status texts handed to cleanBidStatus: missing, empty, unknown, the keys
\* of the table in several spellings, and two names that every object has
StatusTexts ==
  {Undefined, Null, Str(<<>>), Str(<<" ">>), Str(<<"b","o","g","u","s">>),
   Str(<<"a","c","t","i","v","e">>), Str(<<" ","A","c","t","i","v","e"," ">>),
   Str(<<"c","o","m","p","l","e","t","e">>), Str(<<"C","O","M","P","L","E","T","E","D">>),
   Str(<<"a","r","c","h","i","v","e">>), Str(<<"A","R","C","H","I","V","E">>),
   Str(<<"a","r","c","h","i","v","e","d">>), Str(<<"h","o","t">>), Str(<<" ","H","O","T">>),
   Str(<<"c","o","l","d">>), Str(<<"C","o","l","d"," ">>),
   Str(<<"c","o","n","s","t","r","u","c","t","o","r">>),
   Str(<<"_","_","p","r","o","t","o","_","_">>)}

\* day, month and year fields of the day-first texts, in and out of range
DaySamples == {0, 1, 5, 28, 29, 30, 31, 32}
MonthSamples == {0, 1, 2, 3, 4, 12, 13}
YearSamples == {2023, 2024}

Pad2(n) == IF n < 10 THEN <<"0">> \o DecimalText(n) ELSE DecimalText(n)
DmyTextOf(d, m, y, sep) == Str(DecimalText(d) \o <<sep>> \o DecimalText(m) \o <<sep>> \o DecimalText(y))
DmyPaddedOf(d, m, y, sep) == Str(Pad2(d) \o <<sep>> \o Pad2(m) \o <<sep>> \o DecimalText(y))

\* texts handed to parseDateLoose
DateTexts ==
  {DmyTextOf(d, m, y, sep) : d \in DaySamples, m \in MonthSamples, y \in YearSamples, sep \in {"/", "-"}}
    \cup {DmyPaddedOf(d, m, 2024, "/") : d \in DaySamples, m \in MonthSamples}
    \cup {Undefined, Str(<<>>), IsoText, BadDateText,
          Str(<<"n","o","t"," ","a"," ","d","a","t","e">>)}

\* one call of cleanBidStatus
CallCleanBidStatus ==
  /\ Idle
  /\ \E s \in StatusTexts :
       /\ req' = [op |-> "cleanBidStatus", arg |-> s]
       /\ resp' = [status |-> 0, value |-> cleanBidStatus(s)]
  /\ UNCHANGED <<store, log, inflight>>

\* one call of parseDateLoose
CallParseDateLoose ==
  /\ Idle
  /\ \E s \in DateTexts :
       /\ req' = [op |-> "parseDateLoose", arg |-> s]
       /\ resp' = [status |-> 0, value |-> parseDateLoose(s)]
  /\ UNCHANGED <<store, log, inflight>>

NextHelpers ==
  \/ CallCleanBidStatus
  \/ CallParseDateLoose
  \/ Respond

SpecHelpers == InitImport /\ [][NextHelpers]_vars

(* ------------------------- concurrent requests ------------------------- *)
\* Two callers at once.  Each sends one update of bid 1 and one import of a
\* single group; the steps of the four requests interleave at the storage
\* calls, where the handlers await.
Workers == {"a", "b"}
Other(w) == IF w = "a" THEN "b" ELSE "a"

\* prisma.$transaction is called without an isolation level, so the batch of
\* an update runs at the level the database gives by default, which the
\* sources do not fix: both kinds are tried.  "serializable" stands for a
\* database that runs the transactions of one bid one after the other.
Isolations == {"serializable", "read committed"}

\* bid 1 of company A has one scope before the updates
OldScope == [name |-> <<"O">>, cost |-> 1, status |-> Won]
ConcurrentStore == [SeedStore({}, {}) EXCEPT !.scopes = ScopeRows(1, <<OldScope>>)]

\* the bodies the two callers send: no scope of one is a scope of the other
PutBodiesOf(w) ==
  IF w = "a"
  THEN {Body(Str(<<"P">>), NumJ(1), Str(Active), Arr(<<DeckIn>>)),
        Body(Str(<<"P">>), NumJ(1), Str(Active), Arr(<<>>))}
  ELSE {Body(Str(<<"P">>), NumJ(1), Str(Hot), Arr(<<RoofIn>>)),
        Body(Str(<<"P">>), NumJ(1), Str(Hot), Arr(<<RoofIn, BlankIn, RoofIn>>))}

\* the rows the two callers import: a group of the new company B each, or a
\* group of company A, which exists
RowB2 == Row(Str(<<"P">>), Str(<<"B">>), Undefined, Str(<<"D">>), Str(<<"7">>), Str(Lost), IsoText, IsoText, Undefined)
ImportRowsOf(w) == IF w = "a" THEN {RowB1, RowA1} ELSE {RowB2, RowA1}

IdlePut == [pc |-> "idle", body |-> Undefined, scan |-> {}, deleted |-> {}]
IdleImport == [pc |-> "idle", group |-> Undefined, companyId |-> 0]

InitConcurrent ==
  /\ store = ConcurrentStore
  /\ req = NoReq
  /\ resp = NoResp
  /\ log = <<>>
  /\ \E iso \in Isolations :
       inflight = [iso |-> iso,
                   put |-> [w \in Workers |-> IdlePut],
                   imp |-> [w \in Workers |-> IdleImport]]

\* the scope rows of bid 1 a statement sees
RowsOfBid(st, id) == {st.scopes[i] : i \in {j \in 1..Len(st.scopes) : st.scopes[j].bidId = id}}

\* PUT /bids/1, first statement of the batch: the transaction begins and
\* scope.deleteMany takes its view of the rows of the bid
PutScan(w) ==
  /\ inflight.put[w].pc = "idle"
  /\ inflight.iso = "serializable" => inflight.put[Other(w)].pc \in {"idle", "done"}
  /\ \E body \in PutBodiesOf(w) :
       inflight' = [inflight EXCEPT !.put[w] = [pc |-> "scanned", body |-> body,
                                                scan |-> RowsOfBid(store, 1), deleted |-> {}]]
  /\ UNCHANGED <<store, req, resp, log>>

\* scope.deleteMany deletes the rows of its view that still exist, once no
\* other open transaction holds one of them
PutDelete(w) ==
  /\ inflight.put[w].pc = "scanned"
  /\ inflight.put[Other(w)].deleted \cap inflight.put[w].scan = {}
  /\ inflight' = [inflight EXCEPT !.put[w].pc = "deleted",
                                  !.put[w].deleted = inflight.put[w].scan \cap RowsOfBid(store, 1)]
  /\ UNCHANGED <<store, req, resp, log>>

\* bid.update with the nested scope creates, once no other open transaction
\* has written the row of the bid
PutUpdate(w) ==
  /\ inflight.put[w].pc = "deleted"
  /\ inflight.put[Other(w)].pc # "updated"
  /\ inflight' = [inflight EXCEPT !.put[w].pc = "updated"]
  /\ UNCHANGED <<store, req, resp, log>>

\* the batch commits: its deletes, the new fields of the bid and the new
\* scopes become visible together
PutCommit(w) ==
  /\ inflight.put[w].pc = "updated"
  /\ store' = BidUpdate([store EXCEPT !.scopes =
                           SelectSeq(@, LAMBDA r : r \notin inflight.put[w].deleted)],
                        1, inflight.put[w].body, sanitizeScopes(inflight.put[w].body.scopes))
  /\ inflight' = [inflight EXCEPT !.put[w].pc = "done", !.put[w].deleted = {}]
  /\ UNCHANGED <<req, resp, log>>

\* POST /import/bids with one group: prisma.company.findFirst
ImportFind(w) ==
  /\ inflight.imp[w].pc = "idle"
  /\ \E row \in ImportRowsOf(w) :
       inflight' = [inflight EXCEPT !.imp[w] =
                      [pc |-> "looked up", group |-> GroupRows(<<>>, <<row>>)[1],
                       companyId |-> CompanyFindFirst(store, RowCompany(row))]]
  /\ UNCHANGED <<store, req, resp, log>>

\* prisma.company.create when the lookup found none
ImportCompany(w) ==
  /\ inflight.imp[w].pc = "looked up"
  /\ IF inflight.imp[w].companyId # 0
     THEN /\ inflight' = [inflight EXCEPT !.imp[w].pc = "company"]
          /\ UNCHANGED store
     ELSE /\ store' = [store EXCEPT !.companies = Append(@, inflight.imp[w].group.clientCompany)]
          /\ inflight' = [inflight EXCEPT !.imp[w].pc = "company",
                                          !.imp[w].companyId = Len(store.companies) + 1]
  /\ UNCHANGED <<req, resp, log>>

\* the contact and prisma.bid.create of the group
ImportBid(w) ==
  /\ inflight.imp[w].pc = "company"
  /\ store' = CommitContact(store, inflight.imp[w].group, inflight.imp[w].companyId,
                            "none", <<>>).st
  /\ inflight' = [inflight EXCEPT !.imp[w].pc = "done"]
  /\ UNCHANGED <<req, resp, log>>

NextConcurrent ==
  \E w \in Workers :
    \/ PutScan(w)
    \/ PutDelete(w)
    \/ PutUpdate(w)
    \/ PutCommit(w)
    \/ ImportFind(w)
    \/ ImportCompany(w)
    \/ ImportBid(w)

SpecConcurrent == InitConcurrent /\ [][NextConcurrent]_vars

(* ------------------------------ properties ----------------------------- *)
\* the bid a PUT or GET addresses (Number) and the one a DELETE addresses
\* (parseInt)
PutTarget(r) == NumberOfText(r.id).val
DeleteTarget(r) == ParseInt10(r.id).val

\* C1: when the transaction of an update fails at either of its statements
\* (the request ends in the error handler), the bid's fields and its
\* persisted scopes, and with them the whole database, are what they were
\* before the request.
C1_FailedUpdateChangesNothing ==
  [][(req'.op = "put" /\ resp'.status = 500) => store' = store]_vars

\* an update of a bid with two scopes failed at bid.update, after the scopes
\* had been deleted inside the transaction, and the two scopes are there
C1_Witness ==
  /\ req.op = "put"
  /\ resp.status = 500
  /\ req.fail = "bid.update"
  /\ PutTarget(req) \in DOMAIN store.bids
  /\ Len(ScopesOf(store, PutTarget(req))) = 2

\* the incoming scopes whose trimmed name is not empty
NamedIncoming(raw) ==
  IF raw.t # "arr" THEN <<>>
  ELSE SelectSeq(raw.items, LAMBDA s : Trim(StringOf(Coalesce(s.name, Str(<<>>)))) # <<>>)

\* C2: after a successful update of bid b the scopes persisted for b are
\* exactly the sanitized incoming scopes: one for each incoming scope with a
\* non-empty trimmed name, in order, and none of the earlier ones; the scopes
\* of every other bid are unchanged.
C2_UpdateReplacesScopes ==
  [][(req'.op = "put" /\ resp'.status = 200) =>
       /\ FieldsOf(ScopesOf(store', PutTarget(req'))) = sanitizeScopes(req'.body.scopes)
       /\ Len(ScopesOf(store', PutTarget(req'))) = Len(NamedIncoming(req'.body.scopes))
       /\ \A i \in 1..Len(NamedIncoming(req'.body.scopes)) :
            ScopesOf(store', PutTarget(req'))[i].name =
              Trim(StringOf(NamedIncoming(req'.body.scopes)[i].name))
       /\ DOMAIN store'.bids = DOMAIN store.bids
       /\ \A c \in (DOMAIN store.bids) \ {PutTarget(req')} :
            ScopesOf(store', c) = ScopesOf(store, c)]_vars

\* an update with three incoming scopes, one of them blank, succeeded on a
\* bid while another bid holds scopes of its own
C2_Witness ==
  /\ req.op = "put"
  /\ resp.status = 200
  /\ req.body.scopes = Arr(<<RoofIn, BlankIn, RoofIn>>)
  /\ Len(ScopesOf(store, PutTarget(req))) = 2
  /\ \E c \in DOMAIN store.bids : c # PutTarget(req) /\ ScopesOf(store, c) # <<>>

\* every child row belongs to a bid, every bid to a company (foreign keys)
StoreConsistent(st) ==
  /\ \A i \in 1..Len(st.scopes) : st.scopes[i].bidId \in DOMAIN st.bids
  /\ \A i \in 1..Len(st.attachments) : st.attachments[i] \in DOMAIN st.bids
  /\ st.notes \subseteq DOMAIN st.bids
  /\ st.bidTags \subseteq DOMAIN st.bids
  /\ \A b \in DOMAIN st.bids : CompanyExists(st, NumJ(st.bids[b].clientCompanyId))

\* everything the database holds for bid b
Owned(st, b) ==
  [bid |-> IF b \in DOMAIN st.bids THEN <<st.bids[b]>> ELSE <<>>,
   scopes |-> ScopesOf(st, b),
   note |-> b \in st.notes,
   attachments |-> AttachmentsOf(st, b),
   tag |-> b \in st.bidTags]

Gone(st, b) ==
  Owned(st, b) = [bid |-> <<>>, scopes |-> <<>>, note |-> FALSE, attachments |-> <<>>,
                  tag |-> FALSE]

\* C3: a delete is all or nothing.  When it succeeds the bid and all its
\* scopes, notes, attachments and tag associations are gone; when any step
\* fails (or the request is refused) every one of those rows is as before.
\* The rows of the other bids are never touched and no row is left without
\* its bid.
C3_DeleteIsAtomic ==
  [][req'.op = "delete" =>
       /\ resp'.status = 204 => Gone(store', DeleteTarget(req'))
       /\ resp'.status # 204 => store' = store
       /\ \A c \in (DOMAIN store.bids) \ {DeleteTarget(req')} :
            Owned(store', c) = Owned(store, c)
       /\ store'.companies = store.companies
       /\ store'.contacts = store.contacts
       /\ StoreConsistent(store) => StoreConsistent(store')]_vars

\* a delete failed at its last statement, after the scopes, the note and the
\* tag association of the bid had been deleted inside the transaction, and
\* the bid still has them all
C3_Witness ==
  /\ req.op = "delete"
  /\ req.fail = 5
  /\ resp.status = 500
  /\ DeleteTarget(req) \in DOMAIN store.bids
  /\ ScopesOf(store, DeleteTarget(req)) # <<>>
  /\ DeleteTarget(req) \in store.notes
  /\ DeleteTarget(req) \in store.bidTags

\* C4: a delete by a permitted caller, with a usable id and no storage
\* failure, of an id no bid has answers NotFound and changes nothing; and
\* NotFound is answered only when no bid row was affected.
C4_DeleteOfMissingBid ==
  [][(/\ req'.op = "delete"
      /\ req'.role \in {"ADMIN", "ESTIMATOR"}
      /\ IsFiniteNum(ParseInt10(req'.id))
      /\ req'.fail = 0) =>
       /\ DeleteTarget(req') \notin DOMAIN store.bids =>
            (resp'.status = 404 /\ store' = store)
       /\ resp'.status = 404 =>
            (DeleteTarget(req') \notin DOMAIN store.bids /\ store'.bids = store.bids)
       /\ resp'.status \in {204, 404}]_vars

\* a delete of id 9, which no bid has, was answered NotFound while the
\* database holds bids
C4_Witness ==
  /\ req.op = "delete"
  /\ req.id = <<"9">>
  /\ resp = NotFound
  /\ DOMAIN store.bids # {}

\* the operations of the bid routes and the permission each one asks for
BidOps == {"list", "get", "post", "put", "delete"}

ActionOf(op) ==
  CASE op \in {"list", "get"} -> "read"
    [] op = "post" -> "create"
    [] op = "put" -> "update"
    [] op = "delete" -> "delete"

\* the permission matrix as stated: ADMIN and ESTIMATOR everything, MANAGER
\* everything but delete, VIEWER read only, no role nothing
Permitted(role, action) ==
  \/ role \in {"ADMIN", "ESTIMATOR"} /\ action \in {"read", "create", "update", "delete"}
  \/ role = "MANAGER" /\ action \in {"read", "create", "update"}
  \/ role = "VIEWER" /\ action = "read"

\* C5: a bid operation is refused exactly when the matrix does not permit it
\* to the caller's role; a refused operation answers Forbidden and leaves the
\* database as it was; a VIEWER and a caller without a role never change the
\* database through a bid operation, and a MANAGER never removes a bid.
C5_PermissionMatrix ==
  [][req'.op \in BidOps =>
       /\ (resp'.status = 403) = ~Permitted(req'.role, ActionOf(req'.op))
       /\ resp'.status = 403 => (resp' = Forbidden /\ store' = store)
       /\ req'.role \in {"VIEWER", NoRole} => store' = store
       /\ req'.role = "MANAGER" =>
            \A b \in DOMAIN store.bids : b \in DOMAIN store'.bids]_vars

\* a MANAGER asked to delete a bid that exists and was refused
C5_Witness ==
  /\ req.op = "delete"
  /\ req.role = "MANAGER"
  /\ resp = Forbidden
  /\ DeleteTarget(req) \in DOMAIN store.bids

RoleChecks == {"requirePerm", "requireRole"}

RECURSIVE CostSum(_)
\* the sum of the costs of scope rows
CostSum(rows) == IF rows = <<>> THEN 0 ELSE rows[1].cost + CostSum(Tail(rows))

\* C7: every entry of a list returned to a VIEWER has amount null and no
\* scopes; for every other role the amount is the sum of the costs of the
\* bid's scopes; nothing else of the entry differs from the unredacted row,
\* and the list leaves the database as it was.
C7_ListRedaction ==
  [][req'.op = "list" =>
       /\ store' = store
       /\ resp'.status = 200 =>
            \A i \in 1..Len(resp'.body) :
              /\ resp'.body[i].id \in DOMAIN store.bids
              /\ "scopes" \notin DOMAIN resp'.body[i]
              /\ resp'.body[i].amount =
                   IF req'.role = "VIEWER" THEN Null
                   ELSE NumJ(CostSum(ScopesOf(store, resp'.body[i].id)))
              /\ [resp'.body[i] EXCEPT !.amount = Null] =
                   [ListRow(store, resp'.body[i].id) EXCEPT !.amount = Null]]_vars

\* a VIEWER's list holds an entry with amount null of a bid whose scopes
\* cost something
C7_Witness ==
  /\ req.op = "list"
  /\ req.role = "VIEWER"
  /\ resp.status = 200
  /\ \E i \in 1..Len(resp.body) :
       /\ resp.body[i].amount = Null
       /\ CostSum(ScopesOf(store, resp.body[i].id)) > 0

\* C8: get-one gives a VIEWER the bid without its scopes (and without an
\* amount) and gives every other reader all the scopes of the bid; a reader
\* who asks for an id no bid has is answered NotFound.
C8_GetOneRedaction ==
  req.op = "get" =>
    /\ resp.status = 200 =>
         /\ PutTarget(req) \in DOMAIN store.bids
         /\ resp.body.id = PutTarget(req)
         /\ "amount" \notin DOMAIN resp.body
         /\ IF req.role = "VIEWER" THEN "scopes" \notin DOMAIN resp.body
            ELSE /\ "scopes" \in DOMAIN resp.body
                 /\ resp.body.scopes = ScopesOf(store, PutTarget(req))
    /\ (req.role \in Roles /\ IsFiniteNum(NumberOfText(req.id))) =>
         /\ resp.status \in {200, 404}
         /\ (resp = NotFound) = (PutTarget(req) \notin DOMAIN store.bids)

\* a VIEWER got a bid that has scopes
C8_Witness ==
  /\ req.op = "get"
  /\ req.role = "VIEWER"
  /\ resp.status = 200
  /\ ScopesOf(store, PutTarget(req)) # <<>>

\* the rows of a batch that name a project and a company, the group keys
\* among them, and the rows of one key in file order
Grouped(r) == RowProject(r) # <<>> /\ RowCompany(r) # <<>>
KeyOf(r) == GroupKey(RowProject(r), RowCompany(r))
Keys(rows) == {KeyOf(rows[i]) : i \in {j \in 1..Len(rows) : Grouped(rows[j])}}
RowsOfKey(rows, k) == SelectSeq(rows, LAMBDA r : Grouped(r) /\ KeyOf(r) = k)
ErrorKeys(r) == {r.errors[i].key : i \in 1..Len(r.errors)}

\* the bids an import added for the group of key k
ImportedAs(st0, st1, rows, k) ==
  {b \in (DOMAIN st1.bids) \ (DOMAIN st0.bids) :
     /\ st1.bids[b].projectName = RowProject(RowsOfKey(rows, k)[1])
     /\ CompanyName(st1, b) = RowCompany(RowsOfKey(rows, k)[1])}

\* the trimmed scope names of the rows of key k, the empty ones left out
ScopeNamesOf(rows, k) ==
  SelectSeq([i \in 1..Len(RowsOfKey(rows, k)) |->
               Trim(StringOf(Coalesce(RowsOfKey(rows, k)[i].scopeName, Str(<<>>))))],
            LAMBDA n : n # <<>>)

NamesOf(scopeRows) == [i \in 1..Len(scopeRows) |-> scopeRows[i].name]

\* C9: an import creates exactly one bid for each group (the rows of one
\* project-and-company key) that commits, and none for a group it reports as
\* an error; the bid of a group has exactly one scope for each row of the
\* group with a non-empty trimmed scope name, in file order.  No bid and no
\* scope is created beyond these, and the rows already stored stay.
C9_ImportOneBidPerGroup ==
  [][(req'.op = "import" /\ resp'.status = 200) =>
       /\ ErrorKeys(resp') \subseteq Keys(req'.rows)
       /\ Cardinality(ErrorKeys(resp')) = Len(resp'.errors)
       /\ Cardinality(Keys(req'.rows)) = resp'.imported + Len(resp'.errors)
       /\ Cardinality((DOMAIN store'.bids) \ (DOMAIN store.bids)) = resp'.imported
       /\ \A b \in DOMAIN store.bids :
            b \in DOMAIN store'.bids /\ ScopesOf(store', b) = ScopesOf(store, b)
       /\ \A k \in ErrorKeys(resp') : ImportedAs(store, store', req'.rows, k) = {}
       /\ \A k \in Keys(req'.rows) \ ErrorKeys(resp') :
            /\ Cardinality(ImportedAs(store, store', req'.rows, k)) = 1
            /\ \A b \in ImportedAs(store, store', req'.rows, k) :
                 NamesOf(ScopesOf(store', b)) = ScopeNamesOf(req'.rows, k)
       /\ \A i \in 1..Len(store'.scopes) : store'.scopes[i].bidId \in DOMAIN store'.bids]_vars

\* a batch of two rows of one group, the second with a blank scope name,
\* and one row of another group gave two bids with one scope each
C9_Witness ==
  /\ req.op = "import"
  /\ req.rows = <<RowA1, RowA3, RowB1>>
  /\ resp.status = 200
  /\ resp.imported = 2
  /\ Len(ScopesOf(store, store.nextBidId - 2)) = 1
  /\ Len(ScopesOf(store, store.nextBidId - 1)) = 1

\* the canonical statuses of the rows of key k, and the first of them that
\* is not Active (Active when there is none)
StatusesOf(rows, k) ==
  [i \in 1..Len(RowsOfKey(rows, k)) |-> cleanBidStatus(RowsOfKey(rows, k)[i].bidStatus)]

FirstNonActive(ss) ==
  IF \A i \in 1..Len(ss) : ss[i] = Str(Active) THEN Str(Active)
  ELSE ss[CHOOSE i \in 1..Len(ss) :
            ss[i] # Str(Active) /\ \A j \in 1..(i - 1) : ss[j] = Str(Active)]

\* the status of a group that is not Active after n rows is the same after
\* n + 1 rows
StickyAt(rows, n) ==
  \A i \in 1..Len(GroupRows(<<>>, SubSeq(rows, 1, n))) :
    GroupRows(<<>>, SubSeq(rows, 1, n))[i].bidStatus # Str(Active) =>
      GroupRows(<<>>, SubSeq(rows, 1, n + 1))[i].bidStatus =
        GroupRows(<<>>, SubSeq(rows, 1, n))[i].bidStatus

\* C10: the status persisted for an imported group is the canonical status
\* of the first of its rows whose status is not Active, and Active when
\* there is no such row; once the status of a group is not Active no later
\* row changes it.
C10_StatusElevationSticky ==
  [][(req'.op = "import" /\ resp'.status = 200) =>
       /\ \A n \in 1..(Len(req'.rows) - 1) : StickyAt(req'.rows, n)
       /\ \A k \in Keys(req'.rows) \ ErrorKeys(resp') :
            \A b \in ImportedAs(store, store', req'.rows, k) :
              store'.bids[b].bidStatus = FirstNonActive(StatusesOf(req'.rows, k))]_vars

\* a group whose rows say active, HOT and cold, in this order, was imported
\* as Hot
C10_Witness ==
  /\ req.op = "import"
  /\ req.rows = <<RowA1, RowA2, RowA3>>
  /\ resp.status = 200
  /\ resp.imported = 1
  /\ store.bids[store.nextBidId - 1].bidStatus = Str(Hot)

\* a row whose proposalDate and dueDate both parse, the keys of the groups
\* whose dates (those of the first row of the group) do not, and a batch
\* without the rows of some keys
DatesParse(r) ==
  /\ parseDateLoose(Str(Trim(StringOf(Coalesce(r.proposalDate, Str(<<>>)))))) # Null
  /\ parseDateLoose(Str(Trim(StringOf(Coalesce(r.dueDate, Str(<<>>)))))) # Null
BadDateKeys(rows) == {k \in Keys(rows) : ~DatesParse(RowsOfKey(rows, k)[1])}
WithoutKeys(rows, ks) == SelectSeq(rows, LAMBDA r : ~(Grouped(r) /\ KeyOf(r) \in ks))

\* C11: in an import without storage failures the groups reported in errors
\* are exactly those whose proposalDate or dueDate does not parse; such a
\* group creates no bid, and the database and the count of imported bids are
\* what the same batch without the rows of those groups gives, wherever the
\* failing group stands in the batch.
C11_GroupsFailIndependently ==
  [][(req'.op = "import" /\ req'.hasFile /\ req'.fail = "none") =>
       /\ ErrorKeys(resp') = BadDateKeys(req'.rows)
       /\ \A i \in 1..Len(resp'.errors) : resp'.errors[i].message = InvalidDates
       /\ \A k \in BadDateKeys(req'.rows) : ImportedAs(store, store', req'.rows, k) = {}
       /\ store' =
            ImportOut(store, TRUE, WithoutKeys(req'.rows, BadDateKeys(req'.rows)), 0, "none").store
       /\ resp'.imported =
            ImportOut(store, TRUE, WithoutKeys(req'.rows, BadDateKeys(req'.rows)), 0,
                      "none").resp.imported]_vars

\* a group without usable dates stood second in a batch: it is reported and
\* the group before it was imported
C11_Witness ==
  /\ req.op = "import"
  /\ req.rows = <<RowB1, RowA2>>
  /\ req.fail = "none"
  /\ resp.imported = 1
  /\ ErrorKeys(resp) = {KeyOf(RowA2)}
  /\ store.bids[store.nextBidId - 1].projectName = RowProject(RowB1)

\* the company named by the group of key k
CompanyOfKey(rows, k) == RowCompany(RowsOfKey(rows, k)[1])
\* no other group of the batch that committed names the company of group k
CompanyUnshared(rows, r, k) ==
  \A j \in Keys(rows) \ ErrorKeys(r) : CompanyOfKey(rows, j) # CompanyOfKey(rows, k)

\* C12: a group that is reported in errors leaves no record behind: no bid,
\* no company that was created for it, and no contact that was created for
\* it.
C12_GroupCommitIsAtomic ==
  [][(req'.op = "import" /\ req'.hasFile) =>
       \A k \in ErrorKeys(resp') :
         /\ ImportedAs(store, store', req'.rows, k) = {}
         /\ (CompanyFindFirst(store, CompanyOfKey(req'.rows, k)) = 0
               /\ CompanyUnshared(req'.rows, resp', k))
            => /\ CompanyFindFirst(store', CompanyOfKey(req'.rows, k)) = 0
               /\ \A i \in (Len(store.contacts) + 1)..Len(store'.contacts) :
                    store'.companies[store'.contacts[i].companyId]
                      # CompanyOfKey(req'.rows, k)]_vars

\* the groups of a batch whose bid exists after the import
CommittedKeys(st0, st1, rows) == {k \in Keys(rows) : ImportedAs(st0, st1, rows, k) # {}}

\* C13: every import of a file answers 200 with {imported, errors}; imported
\* is the number of bids created, which is the number of groups whose bid
\* exists afterwards; errors holds one {key, message} entry for each group
\* without a bid and no other; the two together count every group once.
C13_ResponseAccountsForEveryGroup ==
  [][(req'.op = "import" /\ req'.hasFile) =>
       /\ resp'.status = 200
       /\ resp'.imported = store'.nextBidId - store.nextBidId
       /\ resp'.imported = Cardinality(CommittedKeys(store, store', req'.rows))
       /\ \A i \in 1..Len(resp'.errors) : DOMAIN resp'.errors[i] = {"key", "message"}
       /\ \A i, j \in 1..Len(resp'.errors) :
            resp'.errors[i].key = resp'.errors[j].key => i = j
       /\ ErrorKeys(resp') = Keys(req'.rows) \ CommittedKeys(store, store', req'.rows)
       /\ resp'.imported + Len(resp'.errors) = Cardinality(Keys(req'.rows))]_vars

\* the first of two groups failed at a storage call and the second was
\* imported all the same
C13_Witness ==
  /\ req.op = "import"
  /\ req.rows = <<RowA1, RowB1>>
  /\ req.failAt = 1
  /\ req.fail = "bid.create"
  /\ resp.status = 200
  /\ resp.imported = 1
  /\ Len(resp.errors) = 1
  /\ resp.errors[1].key = KeyOf(RowA1)

\* the rows of a batch that are not discarded
KeptRows(rows) == SelectSeq(rows, LAMBDA r : Grouped(r))
\* the bids an import created
NewBids(st0, st1) == DOMAIN st1.bids \ DOMAIN st0.bids

\* C14: an import of a batch with rows whose trimmed projectName or trimmed
\* clientCompany is empty leaves the database, and answers, as the import of
\* the batch without those rows does: they open no group, add no scope,
\* raise no status, create no record and no entry of errors.  A batch of
\* such rows alone changes nothing and reports nothing.
C14_DiscardedRowsLeaveNoTrace ==
  [][(req'.op = "import" /\ req'.hasFile /\ KeptRows(req'.rows) # req'.rows) =>
       /\ store' = ImportOut(store, TRUE, KeptRows(req'.rows), req'.failAt, req'.fail).store
       /\ resp' = ImportOut(store, TRUE, KeptRows(req'.rows), req'.failAt, req'.fail).resp
       /\ ErrorKeys(resp') \subseteq Keys(KeptRows(req'.rows))
       /\ \A b \in NewBids(store, store') :
            /\ store'.bids[b].projectName # <<>>
            /\ store'.companies[store'.bids[b].clientCompanyId] # <<>>
       /\ KeptRows(req'.rows) = <<>> =>
            (store' = store /\ resp'.imported = 0 /\ resp'.errors = <<>>)]_vars

\* a row without a project name stood between two rows of one group: the
\* group kept its status and has the scopes of its own two rows
C14_Witness ==
  /\ req.op = "import"
  /\ req.rows = <<RowA1, RowNoProject, RowA1>>
  /\ req.fail = "none"
  /\ resp.imported = 1
  /\ resp.errors = <<>>
  /\ store.bids[1].bidStatus = Str(Active)
  /\ Len(ScopesOf(store, 1)) = 2

\* the bid a successful create or update wrote
WrittenBid(r) == IF r.op = "post" THEN store.nextBidId - 1 ELSE PutTarget(r)
\* the status sanitizeScopes stores for an incoming one
StoredStatus(raw) ==
  IF raw = Undefined \/ raw = Null \/ StringOf(raw) \notin VALID_SCOPE_STATUS
  THEN Pending ELSE StringOf(raw)

\* C15: every stored scope has a name that is trimmed and not empty and one
\* of the statuses Pending, Won, Lost; a create or update that succeeded
\* stored one scope for each incoming scope with a name, in order, with
\* Pending where the incoming status is missing or not one of the three, and
\* dropped the unnamed ones without failing.
C15_ScopesNamedWithKnownStatus ==
  /\ \A i \in 1..Len(store.scopes) :
       /\ store.scopes[i].name # <<>>
       /\ Trim(store.scopes[i].name) = store.scopes[i].name
       /\ store.scopes[i].status \in VALID_SCOPE_STATUS
  /\ (req.op \in {"post", "put"} /\ resp.status \in {200, 201} /\ req.body.scopes.t = "arr") =>
       LET kept == NamedIncoming(req.body.scopes)
           stored == ScopesOf(store, WrittenBid(req))
       IN /\ Len(stored) = Len(kept)
          /\ \A i \in 1..Len(kept) :
               /\ stored[i].name = Trim(StringOf(kept[i].name))
               /\ stored[i].status = StoredStatus(kept[i].status)

\* a create with a blank-named scope between two named ones succeeded and
\* stored the two, both Pending
C15_Witness ==
  /\ req.op = "post"
  /\ resp.status = 201
  /\ req.body.scopes = Arr(<<RoofIn, BlankIn, RoofIn>>)
  /\ Len(ScopesOf(store, store.nextBidId - 1)) = 2
  /\ \A i \in 1..2 : ScopesOf(store, store.nextBidId - 1)[i].status = Pending

\* C16: the cost of every stored scope is a number that is not negative.
C16_ScopeCostsNotNegative ==
  \A i \in 1..Len(store.scopes) :
    store.scopes[i].cost \in Int /\ store.scopes[i].cost >= 0

BidStatuses == {Str(Active), Str(Complete), Str(Archived), Str(Hot), Str(Cold)}
\* a bidStatus input that is missing, empty or none of the five
UnknownStatus(v) == v \notin BidStatuses

\* C17: every stored bid has one of the five statuses, and a create or
\* update by a caller who may do it, of a bid and a company that exist, with
\* a status that is none of the five succeeds and stores Active.
C17_BidStatusAlwaysKnown ==
  /\ \A b \in DOMAIN store.bids : store.bids[b].bidStatus \in BidStatuses
  /\ (req.op = "post" /\ requireRole(req.role, PostRoles)
        /\ CompanyExists(store, req.body.clientCompanyId) /\ UnknownStatus(req.body.bidStatus)) =>
       (resp.status = 201 /\ store.bids[store.nextBidId - 1].bidStatus = Str(Active))
  /\ (req.op = "put" /\ requireRole(req.role, PutRoles) /\ PutTarget(req) \in DOMAIN store.bids
        /\ CompanyExists(store, req.body.clientCompanyId) /\ UnknownStatus(req.body.bidStatus)) =>
       (resp.status = 200 /\ store.bids[PutTarget(req)].bidStatus = Str(Active))

\* the scope the import stores for a raw scope
AsImported(raw) ==
  ScopeCreate([name |-> Trim(StringOf(Coalesce(raw.name, Str(<<>>)))),
               cost |-> toNumberOrZero(raw.cost),
               status |-> cleanStatus(raw.status)])

\* C18: a create that succeeded stored, for each incoming scope with a name,
\* the scope the import stores for the same raw input: the cost read with
\* its thousands separators and the status recognized whatever its case; the
\* bid read back has the sum of those costs as its amount and their
\* aggregate as its scopeStatus.
C18_CreateSanitizesAsImport ==
  (req.op = "post" /\ resp.status = 201 /\ req.body.scopes.t = "arr") =>
    LET kept == NamedIncoming(req.body.scopes)
        stored == FieldsOf(ScopesOf(store, store.nextBidId - 1))
    IN /\ stored = [i \in 1..Len(kept) |-> AsImported(kept[i])]
       /\ totalAmount(stored) = totalAmount([i \in 1..Len(kept) |-> AsImported(kept[i])])
       /\ aggregateScopeStatus(stored)
            = aggregateScopeStatus([i \in 1..Len(kept) |-> AsImported(kept[i])])

\* C19: in every list answered to a caller who is not a VIEWER, whatever
\* creates, updates, deletes and imports came before, each entry is of a
\* stored bid and its amount is the sum of the costs of the scopes now
\* stored for that bid, 0 when the bid has none.
C19_ListAmountIsScopeSum ==
  (req.op = "list" /\ req.role # "VIEWER" /\ resp.status = 200) =>
    /\ {resp.body[i].id : i \in 1..Len(resp.body)}
         = {b \in DOMAIN store.bids : req.status = Undefined \/ store.bids[b].bidStatus = req.status}
    /\ \A i \in 1..Len(resp.body) :
         /\ resp.body[i].amount = NumJ(CostSum(ScopesOf(store, resp.body[i].id)))
         /\ ScopesOf(store, resp.body[i].id) = <<>> => resp.body[i].amount = NumJ(0)

\* a list for an ADMIN holds a bid without scopes, with amount 0, and a bid
\* with two scopes, with the sum of their costs
C19_Witness ==
  /\ req.op = "list"
  /\ req.role = "ADMIN"
  /\ resp.status = 200
  /\ \E i, j \in 1..Len(resp.body) :
       /\ ScopesOf(store, resp.body[i].id) = <<>>
       /\ resp.body[i].amount = NumJ(0)
       /\ Len(ScopesOf(store, resp.body[j].id)) = 2
       /\ resp.body[j].amount.val = ScopesOf(store, resp.body[j].id)[1].cost
                                      + ScopesOf(store, resp.body[j].id)[2].cost
       /\ resp.body[j].amount.val > 0

\* the orders a sequence can be given in
Reorderings(ss) ==
  {[i \in 1..Len(ss) |-> ss[p[i]]] : p \in Permutations(1..Len(ss))}

\* C20: for the scopes stored for any bid, aggregateScopeStatus gives one of
\* Pending, Won, Lost, Unknown, the same for every order of those scopes, and
\* Unknown exactly when there are none; the scopeStatus of every entry of a
\* list is that value for the scopes now stored for the entry's bid.
C20_AggregateStatusOrderIndependent ==
  /\ \A b \in DOMAIN store.bids :
       /\ aggregateScopeStatus(ScopesOf(store, b)) \in {"Pending", "Won", "Lost", "Unknown"}
       /\ \A q \in Reorderings(ScopesOf(store, b)) :
            aggregateScopeStatus(q) = aggregateScopeStatus(ScopesOf(store, b))
       /\ (aggregateScopeStatus(ScopesOf(store, b)) = "Unknown") = (ScopesOf(store, b) = <<>>)
  /\ (req.op = "list" /\ resp.status = 200) =>
       \A i \in 1..Len(resp.body) :
         \A q \in Reorderings(ScopesOf(store, resp.body[i].id)) :
           resp.body[i].scopeStatus = aggregateScopeStatus(q)

\* a list holds a bid without scopes, Unknown, and a bid whose two scopes
\* have different statuses
C20_Witness ==
  /\ req.op = "list"
  /\ resp.status = 200
  /\ \E i, j \in 1..Len(resp.body) :
       /\ ScopesOf(store, resp.body[i].id) = <<>>
       /\ resp.body[i].scopeStatus = "Unknown"
       /\ Len(ScopesOf(store, resp.body[j].id)) = 2
       /\ ScopesOf(store, resp.body[j].id)[1].status # ScopesOf(store, resp.body[j].id)[2].status
       /\ resp.body[j].scopeStatus \in {"Pending", "Won", "Lost"}

\* the status the table of the claim gives for a trimmed, lower-cased text
TableStatus(v) ==
  CASE v = <<"a","c","t","i","v","e">> -> Str(Active)
    [] v \in {<<"c","o","m","p","l","e","t","e">>, <<"c","o","m","p","l","e","t","e","d">>} -> Str(Complete)
    [] v \in {<<"a","r","c","h","i","v","e">>, <<"a","r","c","h","i","v","e","d">>} -> Str(Archived)
    [] v = <<"h","o","t">> -> Str(Hot)
    [] v = <<"c","o","l","d">> -> Str(Cold)
    [] OTHER -> Str(Active)

\* C21: cleanBidStatus gives, for every input, the status its trimmed and
\* lower-cased text has in the table, Active for a text that is not in the
\* table (missing and empty included); the result is one of the five
\* statuses.
C21_CleanBidStatusTotal ==
  req.op = "cleanBidStatus" =>
    /\ resp.value \in BidStatuses
    /\ resp.value = TableStatus(ToLower(Trim(StringOf(Coalesce(req.arg, Str(<<>>))))))

\* the day, month and year fields of a day-first text form a calendar date
ValidDmy(f) == f[2] >= 1 /\ f[2] <= 12 /\ f[1] >= 1 /\ f[1] <= DaysInMonth(f[3], f[2])

\* C22: for every text of the form D/M/Y or D-M-Y parseDateLoose gives the
\* date whose day is the first field and whose month is the second, and null
\* when the fields are no calendar date (a month or day out of range).
C22_DayFirstDateOrNull ==
  (req.op = "parseDateLoose" /\ req.arg.t = "str" /\ DmyMatch(Trim(req.arg.s)) # <<>>) =>
    LET f == DmyMatch(Trim(req.arg.s))
    IN resp.value = IF ValidDmy(f) THEN DateOf(f[3], f[2], f[1]) ELSE Null

\* a body without a projectName (missing, or empty once trimmed) or without
\* a clientCompanyId
LacksRequired(body) ==
  \/ Trim(StringOf(Coalesce(body.projectName, Str(<<>>)))) = <<>>
  \/ body.clientCompanyId \in {Undefined, Null}
\* the calls of a request that read or write the database
StorageCallsOf(l) == {l[i] : i \in 1..Len(l)} \cap StorageCalls

\* C23: no stored bid has an empty projectName or lacks a client company,
\* and a create or update by a caller who may do it, with a body that lacks
\* a required field, is answered 400 without any call to the database.
C23_RequiredFieldsValidated ==
  /\ \A b \in DOMAIN store.bids :
       /\ store.bids[b].projectName # <<>>
       /\ store.bids[b].clientCompanyId \in 1..Len(store.companies)
  /\ (req.op = "post" /\ requireRole(req.role, PostRoles) /\ LacksRequired(req.body))
       => (resp.status = 400 /\ StorageCallsOf(log) = {})
  /\ (req.op = "put" /\ requireRole(req.role, PutRoles) /\ IsFiniteNum(NumberOfText(req.id))
        /\ LacksRequired(req.body))
       => (resp.status = 400 /\ StorageCallsOf(log) = {})

\* an id parameter that is a decimal number and nothing else
WellFormedId(rawId) == rawId # <<>> /\ AllDigits(rawId)
\* the caller passes the role check of the operation
PassesRoleCheck(r) ==
  CASE r.op = "get" -> requirePerm(r.role, "read")
    [] r.op = "put" -> requireRole(r.role, PutRoles)
    [] r.op = "delete" -> requireRole(r.role, DeleteRoles)

\* C24: a get-one, update or delete whose id parameter is not a well-formed
\* number is answered 400 without any call to the database, whichever of the
\* three operations it is.
C24_MalformedIdRejected ==
  (req.op \in {"get", "put", "delete"} /\ PassesRoleCheck(req) /\ ~WellFormedId(req.id)) =>
    (resp = InvalidId /\ StorageCallsOf(log) = {})

\* C25: an update by a caller who may update, with a well-formed id that no
\* bid has, is answered NotFound and leaves the database as it was.
C25_UpdateOfMissingBid ==
  [][(/\ req'.op = "put"
      /\ requireRole(req'.role, PutRoles)
      /\ IsFiniteNum(NumberOfText(req'.id))
      /\ PutTarget(req') \notin DOMAIN store.bids) =>
       (resp' = NotFound /\ store' = store)]_vars

\* the scope sets an update in flight or done stands for
PayloadsSent ==
  {sanitizeScopes(inflight.put[w].body.scopes) : w \in {v \in Workers : inflight.put[v].pc # "idle"}}

\* C26: with two updates of one bid in flight, the stored scopes of the bid
\* are at every moment the whole old set or the whole sanitized payload of
\* one of the updates, and once both are done they are the payload of one
\* of the two: never a union or a mix, never a leftover of the old scopes.
C26_ConcurrentUpdatesDoNotMix ==
  /\ FieldsOf(ScopesOf(store, 1)) \in {<<OldScope>>} \cup PayloadsSent
  /\ (\A w \in Workers : inflight.put[w].pc = "done") =>
       FieldsOf(ScopesOf(store, 1)) \in PayloadsSent

\* C27: no two companies have the same name, whatever the steps of two
\* imports that name the same new company did in between each other.
C27_ImportCreatesNoDuplicateCompany ==
  \A i, j \in 1..Len(store.companies) : store.companies[i] = store.companies[j] => i = j

\* the (projectName, clientCompany) pair of a row, trimmed, and the rows of a
\* batch that have a given pair
PairOf(r) == <<RowProject(r), RowCompany(r)>>
Pairs(rows) == {PairOf(rows[i]) : i \in {j \in 1..Len(rows) : Grouped(rows[j])}}
RowsOfPair(rows, p) == SelectSeq(rows, LAMBDA r : Grouped(r) /\ PairOf(r) = p)
\* the trimmed, non-empty scope names of some rows
NamedScopesOf(rs) ==
  SelectSeq([i \in 1..Len(rs) |-> Trim(StringOf(Coalesce(rs[i].scopeName, Str(<<>>))))],
            LAMBDA n : n # <<>>)

\* C28: two rows are in one group exactly when their trimmed projectName and
\* their trimmed clientCompany are equal: an import without failures creates,
\* for every pair whose dates parse, one bid of that project and company,
\* with the scopes of the rows of that pair and no others.
C28_GroupsAreKeyedByPair ==
  [][(req'.op = "import" /\ req'.hasFile /\ req'.fail = "none") =>
       /\ \A i, j \in 1..Len(req'.rows) :
            (Grouped(req'.rows[i]) /\ Grouped(req'.rows[j])) =>
              ((KeyOf(req'.rows[i]) = KeyOf(req'.rows[j]))
                 = (PairOf(req'.rows[i]) = PairOf(req'.rows[j])))
       /\ \A p \in Pairs(req'.rows) :
            DatesParse(RowsOfPair(req'.rows, p)[1]) =>
              \E b \in NewBids(store, store') :
                /\ store'.bids[b].projectName = p[1]
                /\ CompanyName(store', b) = p[2]
                /\ NamesOf(ScopesOf(store', b)) = NamedScopesOf(RowsOfPair(req'.rows, p))]_vars

\* C29: a bulk import creates a bid, scope, company or contact only for a
\* caller whose role has the create permission; an import sent by a VIEWER
\* or by a caller without a role leaves the database as it was.
C29_ImportNeedsCreatePermission ==
  [][req'.op = "import" =>
       /\ store' # store => Permitted(req'.role, "create")
       /\ req'.role \in {"VIEWER", NoRole} => store' = store]_vars

\* the response and the database that the service gives for request r when
\* the database is st: the handler of each route, with the inputs of r
OutOf(st, r) ==
  CASE r.op = "list" -> ListOut(st, r.role, r.status)
    [] r.op = "get" -> GetOut(st, r.role, r.id)
    [] r.op = "post" -> PostOut(st, r.role, r.body, r.fail)
    [] r.op = "put" -> PutOut(st, r.role, r.id, r.body, r.fail)
    [] r.op = "delete" -> DeleteOut(st, r.role, r.id, r.fail)
    [] r.op = "attach" -> AttachOut(st, r.id, r.hasFile)
    [] r.op = "import" -> ImportOut(st, r.hasFile, r.rows, r.failAt, r.fail)

\* the costs a scope is given in place of its own
CostSamples == {0, 9}

\* the database with the cost of scope i replaced by c[i]
Recosted(st, c) ==
  [st EXCEPT !.scopes = [i \in 1..Len(st.scopes) |-> [st.scopes[i] EXCEPT !.cost = c[i]]]]

\* the database with every cost replaced by k
AllCosts(st, k) == Recosted(st, [i \in 1..Len(st.scopes) |-> k])

\* two databases that differ in the costs of their scopes at most: they are
\* the same database once every cost is 0
SameButCosts(s, t) == AllCosts(s, 0) = AllCosts(t, 0)

\* C30: a request leads from the database and from the database with every
\* cost set to 0 to two databases that again differ only in the costs of
\* their scopes, so that two databases that differ only in costs still do
\* after any sequence of requests; and a list or a get-one sent by a VIEWER
\* is given the same response whatever the costs are: nothing a VIEWER
\* receives depends on a cost.  (A database whose costs are all 0 is its own
\* counterpart, and there is nothing to compare.)
C30_ViewerCostNoninterference ==
  [][req' # NoReq =>
       /\ AllCosts(store, 0) # store =>
            SameButCosts(OutOf(AllCosts(store, 0), req').store, store')
       /\ (req'.op \in {"list", "get"} /\ req'.role = "VIEWER") =>
            \A k \in CostSamples : OutOf(AllCosts(store, k), req').resp = resp']_vars

\* a VIEWER was given the list, and a bid of the list has a scope with a cost
C30_Witness ==
  /\ req.op = "list"
  /\ req.role = "VIEWER"
  /\ resp.status = 200
  /\ \E i \in 1..Len(resp.body) :
       \E s \in 1..Len(store.scopes) :
         /\ store.scopes[s].bidId = resp.body[i].id
         /\ store.scopes[s].cost > 0

====
